---- MODULE Spec2Model ----
(***************************************************************************)
(* ghostOS Resonant Coordination Core: the SafetyEnvelope, the             *)
(* QueenSynchronizer and the ResonantScheduler as state machines.          *)
(*                                                                         *)
(* Numbers.  The program computes in IEEE doubles; the model computes in   *)
(* fixed point, one unit = 1/1000 ("milli"): a coherence of 0.92 is 920,   *)
(* an energy of 100 is 100000.  Angles live on a grid of PhaseSteps points *)
(* per turn (one grid step = 2*pi/PhaseSteps) and cos/sin are tabulated on *)
(* that grid in milli units.                                               *)
(***************************************************************************)
EXTENDS Integers, Sequences, FiniteSets, TLC

VARIABLES
    \* ---- SafetyEnvelope (src/src/safety/index.ts) ----
    thresholds,     \* the six private threshold fields set by the constructor
    history,        \* private history: number[]  (energy samples, milli)
    result,         \* the SafetyStatus returned by the most recent check()
    calls,          \* number of check() calls since construction / reset()
    energyLog,      \* every energy passed to check() since construction / reset()
    feed,           \* the periodic energy signal the caller measures
    lastCall,       \* the public method called last and the value it returned
    \* ---- the wall clock ----
    now,            \* Date.now(), in ms
    \* ---- ResonantScheduler (src/unnamed/part_001, second module) ----
    processes,      \* private processes: Map<string, ResonantProcess>
    procOrder,      \* the iteration (insertion) order of the Map's keys
    schedConfig,    \* private config: Required<ResonantSchedulerConfig>
    schedTick,      \* private tick
    lastScheduleTime,   \* private lastScheduleTime
    schedCalls,     \* scheduler calls made by the client in the run explored
    \* ---- QueenSynchronizer (src/unnamed/part_001, first module) ----
    subsystems,     \* private subsystems: Map<string, SubsystemState>
    queenState,     \* private queenState: QueenState
    queenConfig,    \* private config: Required<QueenConfig>
    syncTimer,      \* private syncTimer: the handle held, or "null"
    timersArmed,    \* the intervals armed in the runtime (set and not cleared)
    queenTick,      \* private tick
    queenHistory,   \* private history: SynchronizationMetrics[]
    inStep,         \* synchronizationStep() activations on the call stack
    queenCalls,     \* QueenSynchronizer calls since construction or reset()
    steps,          \* synchronization steps executed since construction
    publications,   \* the step numbers at which consciousness-achieved was emitted
    startsIgnored,  \* start() calls since construction or reset() that found a timer armed
    \* ---- EmergenceAccumulator (src/unnamed/part_000) and the vector functions ----
    accumulator,    \* private state: Float64Array, patterns, tick
    vecOut,         \* the last vector operation called and how it ended
    \* ---- ChiralEngine (src/src/chiral/index.ts) ----
    chiralEngine,   \* private eta, gamma
    chiralOut,      \* the stability regime and the stability score last queried
    chiralModes,    \* private topologicalProtection, leftModeAmplitude,
                    \* rightModeAmplitude, windingNumber
    chiralField     \* the state and velocity arrays the caller holds, and the
                    \* number of applyChiralDynamics calls made on them

safetyVars == <<thresholds, history, result, calls, energyLog, feed, lastCall>>

schedVars ==
    <<processes, procOrder, schedConfig, schedTick, lastScheduleTime, schedCalls>>

queenVars ==
    <<subsystems, queenState, queenConfig, syncTimer, timersArmed, queenTick, queenHistory,
      inStep, queenCalls, steps, publications, startsIgnored>>

vectorVars == <<accumulator, vecOut>>

chiralVars == <<chiralEngine, chiralOut, chiralModes, chiralField>>

vars == <<safetyVars, now, schedVars, queenVars, vectorVars, chiralVars>>

\* what the calls of one component leave alone
safetyFrame == <<now, schedVars, queenVars, vectorVars, chiralVars>>

schedFrame == <<safetyVars, queenVars, vectorVars, chiralVars>>

queenFrame == <<safetyVars, now, schedVars, vectorVars, chiralVars>>

vectorFrame == <<safetyVars, now, schedVars, queenVars, chiralVars>>

chiralFrame == <<safetyVars, now, schedVars, queenVars, vectorVars>>

----------------------------------------------------------------------------
(* Arithmetic helpers *)

Abs(x) == IF x < 0 THEN -x ELSE x

Min(a, b) == IF a < b THEN a ELSE b

Max(a, b) == IF a > b THEN a ELSE b

Clamp(lo, hi, x) == Max(lo, Min(hi, x))

\* s.slice(-n): the last n elements of s (all of s when it is shorter)
SliceLast(s, n) == IF Len(s) <= n THEN s ELSE SubSeq(s, Len(s) - n + 1, Len(s))

\* JavaScript's a % m: the remainder takes the sign of the dividend
JsRem(a, m) == IF a >= 0 THEN a % m ELSE -((-a) % m)

\* a / b rounded to the nearest integer (b > 0)
RoundDiv(a, b) == (2 * a + b) \div (2 * b)

RECURSIVE ISqrtIn(_, _, _)
ISqrtIn(v, lo, hi) ==
    IF lo >= hi THEN lo
    ELSE LET mid == (lo + hi + 1) \div 2
         IN  IF mid * mid <= v THEN ISqrtIn(v, mid, hi) ELSE ISqrtIn(v, lo, mid - 1)

\* Math.sqrt, rounded down
ISqrt(v) == ISqrtIn(v, 0, Min(v, 46340))

\* Math.sqrt to the nearest integer
RSqrt(v) == (ISqrt(4 * v) + 1) \div 2

\* the sum of f[x] over the x in ids
RECURSIVE SumIn(_, _)
SumIn(f, ids) ==
    IF ids = {} THEN 0
    ELSE LET x == CHOOSE y \in ids : TRUE
         IN  f[x] + SumIn(f, ids \ {x})

\* the value of a field that is undefined in the source
Undefined == 0 - 1

----------------------------------------------------------------------------
(* Program constants (milli units where the source has a real number) *)

TwoPiMicro == 6283185
PHI_INVERSE == 618
EMERGENCE_COEFFICIENT == 191
DAMPING_DEFAULT == 1000
LAMBDA_RESONANCE == 620
CHIRAL_ETA_DEFAULT == 618
RESONANCE_BAND_MIN == 400
MaxRunningDefault == 4
PreemptionGap == 20000
PHI == 1618
K_OPERATING == 1800
RESONANCE_BAND_MAX == 850
AdaptiveRateDefault == 10
PhiThresholdDefault == 3000
SyncIntervalDefault == 10
maxHistory == 1000
maxPatterns == 1000
GammaDefault == 1000
PublicationPeriod == 100
PhiMax == 15000
CouplingMin == 100
CouplingMax == 5000
CISS_COHERENCE_BOOST == 1300
STABLE_MAX_RATIO == 1000
TRANSITIONAL_MAX_RATIO == 1500

COHERENCE_MIN == 200
COHERENCE_MAX == 920
EMERGENCE_NORM_MIN == 100
EMERGENCE_NORM_MAX == 2000
DAMPING_MIN == 100
DAMPING_MAX == 10000
EnergyMaxDefault == 100000
DivergenceThresholdDefault == 100
maxHistoryLength == 100
DivergenceWindow == 10
MultiViolationLimit == 3
AsymmetryMax == 900
AsymmetryMin == 100
WindingMax == 3
SpinPolarizationMax == 950
TOPOLOGICAL_PROTECTION_FACTOR == 900

----------------------------------------------------------------------------
(* Angles: a grid of PhaseSteps points per turn, cos and sin in milli units *)

CosTab == <<1000, 924, 707, 383, 0, -383, -707, -924,
            -1000, -924, -707, -383, 0, 383, 707, 924>>

PhaseSteps == Len(CosTab)

\* Math.cos / Math.sin of k grid steps
CosAt(k) == CosTab[(k % PhaseSteps) + 1]

SinAt(k) == CosAt(k - PhaseSteps \div 4)

\* x % (2*Math.PI); if (x < 0) x += 2*Math.PI
WrapPhase(x) ==
    LET y == JsRem(x, PhaseSteps) IN IF y < 0 THEN y + PhaseSteps ELSE y

Proj(g, y, x) == x * CosAt(g) + y * SinAt(g)

\* Math.atan2(y, x) to the nearest grid angle in (-pi, pi]; atan2(0, 0) = 0
Atan2(y, x) ==
    IF x = 0 /\ y = 0 THEN 0
    ELSE LET G    == (1 - PhaseSteps \div 2)..(PhaseSteps \div 2)
             best == {g \in G : \A h \in G : Proj(g, y, x) >= Proj(h, y, x)}
         IN  CHOOSE g \in best :
                \A h \in best : Abs(g) < Abs(h) \/ (Abs(g) = Abs(h) /\ g >= h)

RECURSIVE SumCos(_, _)
SumCos(phases, i) ==
    IF i > Len(phases) THEN 0 ELSE CosAt(phases[i]) + SumCos(phases, i + 1)

RECURSIVE SumSin(_, _)
SumSin(phases, i) ==
    IF i > Len(phases) THEN 0 ELSE SinAt(phases[i]) + SumSin(phases, i + 1)

\* the Kuramoto order parameter of a non-empty sequence of phases:
\* r*e^(i*psi) = (1/N) * sum of e^(i*theta)
OrderParameter(phases) ==
    LET sumCos == SumCos(phases, 1)
        sumSin == SumSin(phases, 1)
    IN  [r   |-> RoundDiv(RSqrt(sumCos * sumCos + sumSin * sumSin), Len(phases)),
         psi |-> Atan2(sumSin, sumCos)]

\* one Euler step of a phase: (phase + dPhase * dt) wrapped to [0, 2*pi);
\* dPhase in milli-rad/s, dt in ms, the product in micro-rad
AdvancePhase(phase, dPhase, dtMs) ==
    WrapPhase(phase + RoundDiv(dPhase * dtMs, TwoPiMicro \div PhaseSteps))

----------------------------------------------------------------------------
(* Bounds of the model *)

\* check() calls explored after construction / reset() with freely chosen inputs
MaxCalls == 2

\* check() calls explored after construction / reset() on a periodic energy
\* signal; above maxHistoryLength so that the history window overflows
MaxFeedCalls == 102

\* period of the energy signal fed to check()
FeedPeriod == 2

----------------------------------------------------------------------------
(* SafetyEnvelope: inputs *)

NoChiral == [present |-> FALSE]

ChiralOf(h, reg, w, sp, a) ==
    [present |-> TRUE, handedness |-> h, stabilityRegime |-> reg,
     chiralVelocity |-> CASE reg = "stable" -> 618
                          [] reg = "transitional" -> 1200
                          [] OTHER -> 1800,
     windingNumber |-> w, spinPolarization |-> sp, asymmetry |-> a]

\* ChiralState values handed to check(): one benign state, one per single
\* chiral rule, and combinations of several rules
ChiralSet ==
    { NoChiral,
      ChiralOf("left", "stable", 0, 0, 500),
      ChiralOf("left", "transitional", 0, 0, 500),
      ChiralOf("right", "unstable", 0, 0, 500),
      ChiralOf("left", "stable", 0, 0, 950),
      ChiralOf("achiral", "stable", 0, 0, 50),
      ChiralOf("right", "stable", -4, 0, 500),
      ChiralOf("left", "stable", 0, 990, 500),
      ChiralOf("left", "transitional", 4, 0, 950),
      ChiralOf("right", "unstable", 4, 990, 950) }

CoherenceSet == {100, 500, 950}

NormSet == {50, 1000, 2500}

EnergySet == {40000, 40150, 150000}

\* the energy signals: every sequence of FeedPeriod energies, repeated
FeedSet == [1..FeedPeriod -> EnergySet]

\* the energy the caller measures at its (k+1)-th check()
FeedAt(f, k) == f[(k % Len(f)) + 1]

----------------------------------------------------------------------------
(* SafetyEnvelope: check() *)

DefaultThresholds ==
    [coherenceMin |-> COHERENCE_MIN, coherenceMax |-> COHERENCE_MAX,
     emergenceMin |-> EMERGENCE_NORM_MIN, emergenceMax |-> EMERGENCE_NORM_MAX,
     energyMax |-> EnergyMaxDefault,
     divergenceThreshold |-> DivergenceThresholdDefault]

\* PushEnergy with pop() instead of shift(): the newest sample is dropped
PushEnergyDropNewest(h, e) ==
    LET h1 == Append(h, e)
    IN  IF Len(h1) > maxHistoryLength THEN SubSeq(h1, 1, Len(h1) - 1) ELSE h1

\* this.history.push(e); if (length > maxHistoryLength) this.history.shift()
PushEnergy(h, e) ==
    LET h1 == Append(h, e)
    IN  IF Len(h1) > maxHistoryLength THEN Tail(h1) ELSE h1

RECURSIVE SumAbsDiff(_, _)
SumAbsDiff(s, i) ==
    IF i > Len(s) THEN 0 ELSE Abs(s[i] - s[i - 1]) + SumAbsDiff(s, i + 1)

\* totalChange / recent.length, kept as an exact fraction num/den
calculateDivergenceRate(h) ==
    IF Len(h) < 2 THEN [num |-> 0, den |-> 1]
    ELSE LET recent == SliceLast(h, DivergenceWindow)
         IN  [num |-> SumAbsDiff(recent, 2), den |-> Len(recent)]

\* rate > limit, for rate = num/den
RateExceeds(rate, limit) == rate.num > limit * rate.den

StartAcc == [violations |-> <<>>, action |-> "nominal", status |-> "nominal"]

Violate(acc, tag, action, status) ==
    [violations |-> Append(acc.violations, tag), action |-> action, status |-> status]

\* Check emergence norm
NormRule(acc, st, th) ==
    IF st.emergenceNorm > th.emergenceMax
        THEN Violate(acc, "norm-high", "normalize", "warning")
    ELSE IF st.emergenceNorm < th.emergenceMin
        THEN Violate(acc, "norm-low", "boost-coherence", "warning")
    ELSE acc

\* Check coherence
CoherenceRule(acc, st, th) ==
    IF st.coherence > th.coherenceMax
        THEN Violate(acc, "coherence-high", "reduce-coupling", "warning")
    ELSE IF st.coherence < th.coherenceMin
        THEN Violate(acc, "coherence-low",
                     IF acc.action = "nominal" THEN "inject-noise" ELSE acc.action,
                     "warning")
    ELSE acc

\* Check energy bounds
EnergyRule(acc, st, th) ==
    IF st.energy > th.energyMax
        THEN Violate(acc, "energy", "normalize", "critical")
    ELSE acc

\* DivergenceRule setting the status to warning unconditionally
DivergenceRuleDowngrades(acc, rate, th) ==
    IF RateExceeds(rate, th.divergenceThreshold)
        THEN Violate(acc, "divergence", "reduce-coupling", "warning")
    ELSE acc

\* Check divergence rate
DivergenceRule(acc, rate, th) ==
    IF RateExceeds(rate, th.divergenceThreshold)
        THEN Violate(acc, "divergence", "reduce-coupling",
                     IF acc.status = "critical" THEN "critical" ELSE "warning")
    ELSE acc

ChiralRegimeRule(acc, ch) ==
    IF ch.stabilityRegime = "unstable"
        THEN Violate(acc, "chiral-unstable", "chiral-rebalance", "warning")
    ELSE IF ch.stabilityRegime = "transitional"
        THEN Violate(acc, "chiral-transitional", acc.action,
                     IF acc.action = "nominal" THEN "warning" ELSE acc.status)
    ELSE acc

ChiralAsymmetryRule(acc, ch) ==
    IF ch.asymmetry > AsymmetryMax
        THEN Violate(acc, "asymmetry-high",
                     IF acc.action = "nominal" THEN "flip-handedness" ELSE acc.action,
                     "warning")
    ELSE IF ch.asymmetry < AsymmetryMin /\ ch.handedness = "achiral"
        THEN Violate(acc, "achiral", acc.action, acc.status)
    ELSE acc

ChiralWindingRule(acc, ch) ==
    IF Abs(ch.windingNumber) > WindingMax
        THEN Violate(acc, "winding",
                     IF acc.action = "nominal" THEN "topological-reset" ELSE acc.action,
                     IF acc.status = "nominal" THEN "warning" ELSE acc.status)
    ELSE acc

ChiralSpinRule(acc, ch) ==
    IF Abs(ch.spinPolarization) > SpinPolarizationMax
        THEN Violate(acc, "spin", acc.action, acc.status)
    ELSE acc

\* private checkChiralStability(chiral): its own violations, action and status
checkChiralStability(ch) ==
    ChiralSpinRule(
        ChiralWindingRule(
            ChiralAsymmetryRule(
                ChiralRegimeRule(StartAcc, ch), ch), ch), ch)

\* a ChiralRule that lets the chiral action replace the action chosen before
ChiralRuleOverrides(acc, st) ==
    IF st.chiral.present
        THEN LET cv == checkChiralStability(st.chiral)
                 take == cv.action # "nominal"
             IN  [violations |-> acc.violations \o cv.violations,
                  action |-> IF take THEN cv.action ELSE acc.action,
                  status |-> IF take THEN cv.status ELSE acc.status]
    ELSE acc

\* a ChiralRule that copies the chiral status whenever no action was chosen before
ChiralRuleCopiesStatus(acc, st) ==
    IF st.chiral.present
        THEN LET cv == checkChiralStability(st.chiral)
                 take == acc.action = "nominal"
             IN  [violations |-> acc.violations \o cv.violations,
                  action |-> IF take THEN cv.action ELSE acc.action,
                  status |-> IF take THEN cv.status ELSE acc.status]
    ELSE acc

\* Check chiral stability if available
ChiralRule(acc, st) ==
    IF st.chiral.present
        THEN LET cv == checkChiralStability(st.chiral)
                 take == cv.action # "nominal" /\ acc.action = "nominal"
             IN  [violations |-> acc.violations \o cv.violations,
                  action |-> IF take THEN cv.action ELSE acc.action,
                  status |-> IF take THEN cv.status ELSE acc.status]
    ELSE acc

\* MultiViolationRule with "more than three" instead of "three or more"
MultiViolationRuleStrict(acc) ==
    IF Len(acc.violations) > MultiViolationLimit
        THEN [acc EXCEPT !.action = "emergency-halt", !.status = "critical"]
    ELSE acc

\* Critical condition: multiple violations
MultiViolationRule(acc) ==
    IF Len(acc.violations) >= MultiViolationLimit
        THEN [acc EXCEPT !.action = "emergency-halt", !.status = "critical"]
    ELSE acc

\* private calculateChiralStabilityScore(chiral)
calculateChiralStabilityScore(ch) ==
    LET regime == CASE ch.stabilityRegime = "stable" -> 1000
                    [] ch.stabilityRegime = "transitional" -> 700
                    [] OTHER -> 300
        asym   == Max(500, 1000 - Abs(ch.asymmetry - 500))
        topo   == TOPOLOGICAL_PROTECTION_FACTOR
                  + ((1000 - TOPOLOGICAL_PROTECTION_FACTOR)
                     * (1000 - Min(1000, (Abs(ch.windingNumber) * 1000) \div 3))) \div 1000
    IN  Clamp(0, 1000, (((regime * asym) \div 1000) * topo) \div 1000)

\* private calculateStabilityScore(state, divergenceRate)
calculateStabilityScore(st, rate, th) ==
    LET cHalf == th.coherenceMax - th.coherenceMin
        cDev  == (Abs(2 * st.coherence - (th.coherenceMin + th.coherenceMax)) * 1000) \div cHalf
        s1    == Max(0, 1000 - cDev \div 2)
        eHalf == th.emergenceMax - th.emergenceMin
        eDev  == (Abs(2 * st.emergenceNorm - (th.emergenceMin + th.emergenceMax)) * 1000) \div eHalf
        s2    == (s1 * Max(0, 1000 - (3 * eDev) \div 10)) \div 1000
        s3    == (s2 * Max(0, 1000 - (rate.num * 1000) \div (rate.den * th.divergenceThreshold))) \div 1000
        s4    == (s3 * Max(0, 1000 - (st.energy * 1000) \div th.energyMax)) \div 1000
        s5    == IF st.chiral.present
                     THEN (s4 * (800 + (4 * calculateChiralStabilityScore(st.chiral)) \div 10)) \div 1000
                     ELSE s4
    IN  Clamp(0, 1000, s5)

\* the decision part of check(): the rules in source order, over the history
\* that already holds this call's sample
Decide(h, st, th) ==
    LET rate == calculateDivergenceRate(h)
    IN  MultiViolationRule(
            ChiralRule(
                DivergenceRule(
                    EnergyRule(
                        CoherenceRule(
                            NormRule(StartAcc, st, th), st, th), st, th), rate, th), st))

\* the SafetyStatus check(state) returns, given the history after the push
CheckResult(h, st, th) ==
    LET acc  == Decide(h, st, th)
        rate == calculateDivergenceRate(h)
    IN  [status |-> acc.status,
         intervention |-> acc.action # "nominal",
         action |-> acc.action,
         violations |-> acc.violations,
         metrics |-> [coherence |-> st.coherence,
                      emergenceNorm |-> st.emergenceNorm,
                      energy |-> st.energy,
                      divergenceRate |-> rate,
                      stabilityScore |-> calculateStabilityScore(st, rate, th),
                      chiral |-> st.chiral]]

NoResult == [status |-> "none"]

NoFeed == <<>>

\* no public method called yet
NotCalledYet == [method |-> "constructor", value |-> "void"]

SafetyInit ==
    /\ thresholds = DefaultThresholds
    /\ history = <<>>
    /\ result = NoResult
    /\ calls = 0
    /\ energyLog = <<>>
    /\ feed = NoFeed
    /\ lastCall = NotCalledYet

\* a check() that also adapts the divergence threshold to the sample it stores
CheckAdaptive(st) ==
    /\ history' = PushEnergy(history, st.energy)
    /\ result' = CheckResult(history', st, thresholds)
    /\ calls' = calls + 1
    /\ energyLog' = Append(energyLog, st.energy)
    /\ thresholds' = [thresholds EXCEPT !.divergenceThreshold = st.energy \div 100]
    /\ lastCall' = [method |-> "check", value |-> result'.status]
    /\ UNCHANGED <<feed, safetyFrame>>

\* this.check(state): the fields of the envelope and the status it returns
CheckCalled(st) ==
    /\ history' = PushEnergy(history, st.energy)
    /\ result' = CheckResult(history', st, thresholds)
    /\ calls' = calls + 1
    /\ energyLog' = Append(energyLog, st.energy)
    /\ UNCHANGED <<thresholds, feed, safetyFrame>>

\* check(state: SystemState): SafetyStatus
Check(st) ==
    /\ CheckCalled(st)
    /\ lastCall' = [method |-> "check", value |-> result'.status]

\* check() on any input
SafetyCheck ==
    /\ calls < MaxCalls
    /\ \E c \in CoherenceSet, n \in NormSet, e \in EnergySet, ch \in ChiralSet :
          Check([coherence |-> c, emergenceNorm |-> n, energy |-> e, chiral |-> ch])

\* reset(): void
SafetyReset ==
    /\ history' = <<>>
    /\ calls' = 0
    /\ energyLog' = <<>>
    /\ lastCall' = [method |-> "reset", value |-> "void"]
    /\ UNCHANGED <<thresholds, result, feed, safetyFrame>>

\* the inputs of getSummary() and recommendDampingAdjustment()
AdviceInputSet ==
    {[coherence |-> c, emergenceNorm |-> n, energy |-> e, chiral |-> NoChiral] :
        c \in {500}, n \in {1000, 2500}, e \in EnergySet}

\* the number recommendDampingAdjustment() derives from the status of its check()
DampingAdjustment(status, st) ==
    CASE status.action = "reduce-coupling" -> 950
      [] status.action = "boost-coherence" -> 1050
      [] status.action = "normalize" -> 900
      [] status.action = "emergency-halt" -> (DAMPING_MAX * 1000) \div st.energy
      [] OTHER -> 1000

\* the text getSummary() derives from the status of its check(): the status
\* word and what the text quotes of the result
Summary(status) ==
    CASE status.status = "nominal" ->
            [status |-> "nominal", stabilityScore |-> status.metrics.stabilityScore]
      [] status.status = "warning" ->
            [status |-> "warning", violation |-> status.violations[1],
             action |-> status.action]
      [] OTHER ->
            [status |-> "critical", violations |-> Len(status.violations),
             action |-> status.action]

\* a recommendDampingAdjustment() that judges the state without recording it
recommendWithoutRecording(st) ==
    /\ lastCall' = [method |-> "recommendDampingAdjustment",
                    value |-> DampingAdjustment(
                                 CheckResult(PushEnergy(history, st.energy), st, thresholds),
                                 st)]
    /\ UNCHANGED <<thresholds, history, result, calls, energyLog, feed, safetyFrame>>

\* recommendDampingAdjustment(state: SystemState): number
recommendDampingAdjustment(st) ==
    /\ CheckCalled(st)
    /\ lastCall' = [method |-> "recommendDampingAdjustment",
                    value |-> DampingAdjustment(result', st)]

\* getSummary(state: SystemState): string
getSummary(st) ==
    /\ CheckCalled(st)
    /\ lastCall' = [method |-> "getSummary", value |-> Summary(result')]

SafetyRecommend == calls < MaxCalls /\ \E st \in AdviceInputSet : recommendDampingAdjustment(st)

SafetyGetSummary == calls < MaxCalls /\ \E st \in AdviceInputSet : getSummary(st)

\* A long run of check() on a system whose energy is a periodic signal and
\* whose other metrics stay in band
SafetyFeedInit ==
    /\ thresholds = DefaultThresholds
    /\ history = <<>>
    /\ result = NoResult
    /\ calls = 0
    /\ energyLog = <<>>
    /\ feed \in FeedSet
    /\ lastCall = NotCalledYet

SafetyFeedCheck ==
    /\ calls < MaxFeedCalls
    /\ Check([coherence |-> 500, emergenceNorm |-> 1000,
              energy |-> FeedAt(feed, calls), chiral |-> NoChiral])

----------------------------------------------------------------------------
(* ResonantScheduler: inputs and bounds *)

\* scheduler calls explored after construction / reset()
MaxSchedCalls == 5

TaskIds == {"t1", "t2"}

\* the tasks submitted: processClass, options.priority, options.coherenceRequired
\* and the phase drawn by Math.random() * 2 * Math.PI (in grid steps)
SubmitSet ==
    {[processClass |-> "classical", priority |-> 90000, coherenceRequired |-> 900, phase |-> 0],
     [processClass |-> "classical", priority |-> 50000, coherenceRequired |-> 0, phase |-> 4],
     [processClass |-> "quantum", priority |-> 50000, coherenceRequired |-> 0, phase |-> 0]}

MaxRunningSet == {1, 2}

\* Date.now(): the clock reads Epoch at construction
Epoch == 100 * 1000

\* milliseconds elapsed between two readings of the clock (785 ms = pi/4 s)
ElapsedSet == {0, 785}

\* the readings of the clock
ClockValues == {Epoch, Epoch + 785}

----------------------------------------------------------------------------
(* ResonantScheduler: submit() *)

DefaultSchedConfig ==
    [baseFrequency |-> 1000, baseDamping |-> DAMPING_DEFAULT,
     couplingStrength |-> LAMBDA_RESONANCE, chiralBias |-> CHIRAL_ETA_DEFAULT,
     coherenceThreshold |-> RESONANCE_BAND_MIN, maxRunning |-> MaxRunningDefault,
     timeSlice |-> 10]

frequencyMap(cfg, c) ==
    CASE c = "classical" -> cfg.baseFrequency
      [] c = "quantum" -> (cfg.baseFrequency * PHI_INVERSE) \div 1000
      [] c = "hybrid" -> (cfg.baseFrequency * 800) \div 1000
      [] c = "consciousness" ->
            (((cfg.baseFrequency * PHI_INVERSE) \div 1000) * PHI_INVERSE) \div 1000
      [] c = "emergence" -> (cfg.baseFrequency * EMERGENCE_COEFFICIENT) \div 1000

handednessMap(c) ==
    CASE c = "classical" -> "achiral"
      [] c = "quantum" -> "right"
      [] c = "hybrid" -> "achiral"
      [] c = "consciousness" -> "right"
      [] c = "emergence" -> "left"

getDampingForClass(cfg, c) ==
    CASE c = "classical" -> cfg.baseDamping \div 2
      [] c = "quantum" -> cfg.baseDamping * 2
      [] c = "hybrid" -> cfg.baseDamping
      [] c = "consciousness" -> cfg.baseDamping * 3
      [] c = "emergence" -> (cfg.baseDamping * 3) \div 2

\* the ResonantProcess record built by submit(); phase0 is the random phase
NewProcess(cfg, id, c, prio, req, phase0, t) ==
    [id |-> id, name |-> id, processClass |-> c, state |-> "pending",
     phase |-> phase0, frequency |-> frequencyMap(cfg, c), amplitude |-> 1000,
     damping |-> getDampingForClass(cfg, c),
     priority |-> prio, resonantPriority |-> 0,
     coherenceRequired |-> req, coherenceDeadline |-> t + 60000,
     cpuRequired |-> 1, qubitsRequired |-> 0, memoryRequired |-> 1024,
     handedness |-> handednessMap(c), couplingStrength |-> cfg.couplingStrength,
     createdAt |-> t, startedAt |-> Undefined, completedAt |-> Undefined,
     executionTime |-> 0, waitTime |-> 0]

\* Map.prototype.set: a new key goes to the end, an existing key keeps its place
MapSet(procs, id, p) == [x \in DOMAIN procs \cup {id} |-> IF x = id THEN p ELSE procs[x]]

OrderSet(order, procs, id) == IF id \in DOMAIN procs THEN order ELSE Append(order, id)

\* Map.prototype.delete
MapDelete(procs, id) == [x \in DOMAIN procs \ {id} |-> procs[x]]

OrderDelete(order, id) == SelectSeq(order, LAMBDA x : x # id)

----------------------------------------------------------------------------
(* ResonantScheduler: one scheduling cycle *)

\* getProcessesByState(state): the ids in Map order
getProcessesByState(procs, order, st) ==
    SelectSeq(order, LAMBDA id : procs[id].state = st)

RECURSIVE PhasesOf(_, _)
PhasesOf(procs, ids) ==
    IF ids = <<>> THEN <<>>
    ELSE <<procs[Head(ids)].phase>> \o PhasesOf(procs, Tail(ids))

\* an order parameter taken over every process, completed ones included
SchedOrderParameterOfAll(procs, order) ==
    IF order = <<>> THEN [r |-> 0, psi |-> 0]
    ELSE OrderParameter(PhasesOf(procs, order))

\* private calculateOrderParameter(): over the non-completed processes
SchedOrderParameter(procs, order) ==
    LET active == SelectSeq(order, LAMBDA id : procs[id].state # "completed")
    IN  IF active = <<>> THEN [r |-> 0, psi |-> 0]
        ELSE OrderParameter(PhasesOf(procs, active))

\* one process's step of updateDynamics(dt); dt in ms
UpdateProcess(p, cfg, mf, dtMs) ==
    IF p.state = "completed" THEN p
    ELSE LET kuramoto == RoundDiv(RoundDiv(p.couplingStrength * mf.r, 1000)
                                  * SinAt(mf.psi - p.phase), 1000)
             twice    == RoundDiv(cfg.chiralBias * SinAt(2 * (mf.psi - p.phase)), 1000)
             chiral   == IF p.handedness = "left" THEN twice
                         ELSE IF p.handedness = "right" THEN -twice
                         ELSE 0
             dPhase   == p.frequency + kuramoto + chiral
             driving  == IF p.state = "running" THEN 100 ELSE 0
             dAmp     == driving - RoundDiv(p.damping * p.amplitude, 1000)
             waits    == p.state \in {"pending", "ready", "coherence_wait"}
         IN  [p EXCEPT
                !.phase = AdvancePhase(p.phase, dPhase, dtMs),
                !.amplitude = Clamp(100, 2000, p.amplitude + RoundDiv(dAmp * dtMs, 1000)),
                !.waitTime = IF waits THEN p.waitTime + dtMs ELSE p.waitTime]

\* private updateDynamics(dt)
updateDynamics(procs, order, cfg, dtMs) ==
    LET mf == SchedOrderParameter(procs, order)
    IN  [id \in DOMAIN procs |-> UpdateProcess(procs[id], cfg, mf, dtMs)]

\* one process's resonant priority (milli priority points), before clamping
RawPriority(p, mf, t) ==
    LET coherenceBonus == CosAt(Abs(p.phase - mf.psi)) * 10
        chiralBoost    == IF p.handedness = "right" /\ mf.r > 700 THEN 15000 ELSE 0
        waitPenalty    == Min(p.waitTime, 20000)
        timeToDeadline == p.coherenceDeadline - t
        urgency        == IF timeToDeadline < 10000
                              THEN (10000 - timeToDeadline) * 2 ELSE 0
        quantumBoost   == IF p.processClass = "quantum" /\ p.qubitsRequired > 0
                              THEN 5000 ELSE 0
        consciousBoost == IF p.processClass = "consciousness" THEN mf.r * 10 ELSE 0
    IN  p.priority + coherenceBonus + chiralBoost + waitPenalty + urgency
        + quantumBoost + consciousBoost

\* the priorities of a cycle without the final clamp
calculateUnclampedPriorities(procs, order, t) ==
    LET mf == SchedOrderParameter(procs, order)
    IN  [id \in DOMAIN procs |->
            IF procs[id].state = "completed" THEN procs[id]
            ELSE [procs[id] EXCEPT !.resonantPriority = RawPriority(procs[id], mf, t)]]

\* private calculateResonantPriorities()
calculateResonantPriorities(procs, order, t) ==
    LET mf == SchedOrderParameter(procs, order)
    IN  [id \in DOMAIN procs |->
            IF procs[id].state = "completed" THEN procs[id]
            ELSE [procs[id] EXCEPT
                    !.resonantPriority = Clamp(0, 100000, RawPriority(procs[id], mf, t))]]

\* (Math.cos(|phase - psi|) + 1) / 2 >= coherenceRequired
MeetsCoherence(p, psi) == CosAt(Abs(p.phase - psi)) + 1000 >= 2 * p.coherenceRequired

\* private estimateCoherenceWindow(process), ms
estimateCoherenceWindow(p) ==
    CASE p.processClass = "quantum" -> 500
      [] p.processClass = "consciousness" -> 2000
      [] p.processClass = "emergence" -> 1500
      [] OTHER -> 1000

Decision(p, action, reason) ==
    [processId |-> p.id, action |-> action, reason |-> reason,
     resonantPriority |-> p.resonantPriority,
     coherenceWindow |-> IF action = "schedule" THEN estimateCoherenceWindow(p) ELSE 0]

\* a cycle that never looks at the coherence-waiting processes
CoherenceWaitIgnored(procs, waiting, psi) == <<>>

\* Check coherence-waiting processes
RECURSIVE CoherenceWaitDecisions(_, _, _)
CoherenceWaitDecisions(procs, waiting, psi) ==
    IF waiting = <<>> THEN <<>>
    ELSE LET p == procs[Head(waiting)]
             rest == CoherenceWaitDecisions(procs, Tail(waiting), psi)
         IN  IF MeetsCoherence(p, psi)
                 THEN <<Decision(p, "schedule", "coherence-met")>> \o rest
                 ELSE rest

\* Array.prototype.sort((a, b) => b.resonantPriority - a.resonantPriority): stable
RECURSIVE InsertByPriority(_, _, _)
InsertByPriority(procs, sorted, id) ==
    IF sorted = <<>> THEN <<id>>
    ELSE IF procs[Head(sorted)].resonantPriority >= procs[id].resonantPriority
        THEN <<Head(sorted)>> \o InsertByPriority(procs, Tail(sorted), id)
    ELSE <<id>> \o sorted

RECURSIVE SortByPriority(_, _, _)
SortByPriority(procs, ids, sorted) ==
    IF ids = <<>> THEN sorted
    ELSE SortByPriority(procs, Tail(ids), InsertByPriority(procs, sorted, Head(ids)))

\* a slot that starts its process whatever its coherence
SlotDecisionUngated(p, psi) == Decision(p, "schedule", "highest-priority")

\* the decision for a process that received a slot
SlotDecision(p, psi) ==
    IF MeetsCoherence(p, psi)
        THEN Decision(p, "schedule", "highest-priority")
        ELSE Decision(p, "wait", "waiting-for-coherence")

RECURSIVE SlotDecisionsOf(_, _, _, _)
SlotDecisionsOf(procs, sorted, n, psi) ==
    IF n <= 0 \/ sorted = <<>> THEN <<>>
    ELSE <<SlotDecision(procs[Head(sorted)], psi)>>
         \o SlotDecisionsOf(procs, Tail(sorted), n - 1, psi)

\* slots counted with one held back
SlotDecisionsHoldOne(procs, ready, pending, running, cfg, psi) ==
    LET availableSlots == cfg.maxRunning - Len(running) - 1
    IN  IF availableSlots > 0
            THEN SlotDecisionsOf(procs, SortByPriority(procs, ready \o pending, <<>>),
                                 availableSlots, psi)
            ELSE <<>>

\* slots handed out in Map order, without the sort
SlotDecisionsInMapOrder(procs, ready, pending, running, cfg, psi) ==
    LET availableSlots == cfg.maxRunning - Len(running)
    IN  IF availableSlots > 0
            THEN SlotDecisionsOf(procs, ready \o pending, availableSlots, psi)
            ELSE <<>>

\* slots given only to tasks whose coherence also reaches config.coherenceThreshold
SlotDecisionsAboveThreshold(procs, ready, pending, running, cfg, psi) ==
    LET availableSlots == cfg.maxRunning - Len(running)
        admitted == SelectSeq(SortByPriority(procs, ready \o pending, <<>>),
                              LAMBDA id : CosAt(Abs(procs[id].phase - psi)) + 1000
                                              >= 2 * cfg.coherenceThreshold)
    IN  IF availableSlots > 0
            THEN SlotDecisionsOf(procs, admitted, availableSlots, psi)
            ELSE <<>>


\* Schedule ready processes
SlotDecisions(procs, ready, pending, running, cfg, psi) ==
    LET availableSlots == cfg.maxRunning - Len(running)
    IN  IF availableSlots > 0
            THEN SlotDecisionsOf(procs, SortByPriority(procs, ready \o pending, <<>>),
                                 availableSlots, psi)
            ELSE <<>>

\* running.reduce((a, b) => a.resonantPriority < b.resonantPriority ? a : b)
RECURSIVE ReduceLowest(_, _, _)
ReduceLowest(procs, ids, a) ==
    IF ids = <<>> THEN a
    ELSE ReduceLowest(procs, Tail(ids),
            IF procs[a].resonantPriority < procs[Head(ids)].resonantPriority
                THEN a ELSE Head(ids))

\* ready.reduce((a, b) => a.resonantPriority > b.resonantPriority ? a : b)
RECURSIVE ReduceHighest(_, _, _)
ReduceHighest(procs, ids, a) ==
    IF ids = <<>> THEN a
    ELSE ReduceHighest(procs, Tail(ids),
            IF procs[a].resonantPriority > procs[Head(ids)].resonantPriority
                THEN a ELSE Head(ids))

\* a preemption that demotes the first running process of the Map, whatever its
\* priority
PreemptFirstRunning(procs, ready, running, cfg) ==
    IF Len(ready) > 0 /\ Len(running) >= cfg.maxRunning
        THEN LET lowestRunning == procs[ReduceLowest(procs, Tail(running), Head(running))]
                 highestReady  == procs[ReduceHighest(procs, Tail(ready), Head(ready))]
             IN  IF highestReady.resonantPriority - lowestRunning.resonantPriority
                        > PreemptionGap
                     THEN <<Decision(procs[Head(running)], "preempt", "preempted")>>
                     ELSE <<>>
        ELSE <<>>

\* Check for preemption of low-priority running processes
PreemptDecisions(procs, ready, running, cfg) ==
    IF Len(ready) > 0 /\ Len(running) >= cfg.maxRunning
        THEN LET lowestRunning == procs[ReduceLowest(procs, Tail(running), Head(running))]
                 highestReady  == procs[ReduceHighest(procs, Tail(ready), Head(ready))]
             IN  IF highestReady.resonantPriority - lowestRunning.resonantPriority
                        > PreemptionGap
                     THEN <<Decision(lowestRunning, "preempt", "preempted")>>
                     ELSE <<>>
        ELSE <<>>

\* private makeDecisions(): the decisions, in the order they are pushed
makeDecisions(procs, order, cfg) ==
    LET psi           == SchedOrderParameter(procs, order).psi
        ready         == getProcessesByState(procs, order, "ready")
        pending       == getProcessesByState(procs, order, "pending")
        running       == getProcessesByState(procs, order, "running")
        coherenceWait == getProcessesByState(procs, order, "coherence_wait")
    IN  CoherenceWaitDecisions(procs, coherenceWait, psi)
        \o SlotDecisions(procs, ready, pending, running, cfg, psi)
        \o PreemptDecisions(procs, ready, running, cfg)

\* a cycle that leaves the pending processes as they are
PromoteNone(procs) == procs

\* makeDecisions(): Promote pending to ready
PromotePending(procs) ==
    [id \in DOMAIN procs |->
        IF procs[id].state = "pending" THEN [procs[id] EXCEPT !.state = "ready"]
        ELSE procs[id]]

\* an executeDecision whose wait decision leaves the task in its state
executeDecisionWaitInPlace(procs, d, t) ==
    IF d.processId \notin DOMAIN procs THEN procs
    ELSE LET p == procs[d.processId]
         IN  CASE d.action = "schedule" ->
                    IF p.state # "running"
                        THEN [procs EXCEPT ![d.processId] =
                                [p EXCEPT !.state = "running", !.startedAt = t]]
                        ELSE procs
               [] d.action = "preempt" ->
                    IF p.state = "running"
                        THEN [procs EXCEPT ![d.processId] = [p EXCEPT !.state = "ready"]]
                        ELSE procs
               [] OTHER -> procs

\* private executeDecision(decision)
executeDecision(procs, d, t) ==
    IF d.processId \notin DOMAIN procs THEN procs
    ELSE LET p == procs[d.processId]
         IN  CASE d.action = "schedule" ->
                    IF p.state # "running"
                        THEN [procs EXCEPT ![d.processId] =
                                [p EXCEPT !.state = "running", !.startedAt = t]]
                        ELSE procs
               [] d.action = "preempt" ->
                    IF p.state = "running"
                        THEN [procs EXCEPT ![d.processId] = [p EXCEPT !.state = "ready"]]
                        ELSE procs
               [] d.action = "wait" ->
                    [procs EXCEPT ![d.processId] = [p EXCEPT !.state = "coherence_wait"]]
               [] d.action = "boost" ->
                    [procs EXCEPT ![d.processId] =
                        [p EXCEPT !.couplingStrength = (p.couplingStrength * 11) \div 10]]
               [] d.action = "damp" ->
                    [procs EXCEPT ![d.processId] =
                        [p EXCEPT !.damping = (p.damping * 11) \div 10]]

\* for (const decision of decisions) this.executeDecision(decision)
RECURSIVE ExecuteDecisions(_, _, _)
ExecuteDecisions(procs, ds, t) ==
    IF ds = <<>> THEN procs
    ELSE ExecuteDecisions(executeDecision(procs, Head(ds), t), Tail(ds), t)

----------------------------------------------------------------------------
(* ResonantScheduler: operations *)

SchedInit ==
    /\ now = Epoch
    /\ processes = <<>>
    /\ procOrder = <<>>
    /\ schedConfig \in {[DefaultSchedConfig EXCEPT !.maxRunning = m] : m \in MaxRunningSet}
    /\ schedTick = 0
    /\ lastScheduleTime = Epoch
    /\ schedCalls = 0

\* the scheduler constructed and left alone
SchedIdle ==
    /\ now = Epoch
    /\ processes = <<>>
    /\ procOrder = <<>>
    /\ schedConfig = DefaultSchedConfig
    /\ schedTick = 0
    /\ lastScheduleTime = Epoch
    /\ schedCalls = 0

\* one more call of the scheduler's interface by its client
Called ==
    /\ schedCalls < MaxSchedCalls
    /\ schedCalls' = schedCalls + 1

\* a submit() that keeps the times of the record it replaces
SubmitKeepsTimes(id, c, prio, req, phase0) ==
    LET fresh == NewProcess(schedConfig, id, c, prio, req, phase0, now)
        kept  == IF id \in DOMAIN processes
                    THEN [fresh EXCEPT !.startedAt = processes[id].startedAt,
                                       !.waitTime = processes[id].waitTime,
                                       !.executionTime = processes[id].executionTime]
                    ELSE fresh
    IN  /\ Called
        /\ processes' = MapSet(processes, id, kept)
        /\ procOrder' = OrderSet(procOrder, processes, id)
        /\ UNCHANGED <<schedConfig, schedTick, lastScheduleTime, now, schedFrame>>

\* submit(id, name, processClass, options): ResonantProcess
Submit(id, c, prio, req, phase0) ==
    /\ Called
    /\ processes' = MapSet(processes, id, NewProcess(schedConfig, id, c, prio, req, phase0, now))
    /\ procOrder' = OrderSet(procOrder, processes, id)
    /\ UNCHANGED <<schedConfig, schedTick, lastScheduleTime, now, schedFrame>>

SchedSubmit ==
    \E id \in TaskIds, o \in SubmitSet :
        Submit(id, o.processClass, o.priority, o.coherenceRequired, o.phase)

\* schedule(): the registry after a call made when the clock reads t, the
\* previous call having been made at time last
scheduled(procs, order, cfg, last, t) ==
    LET moved     == updateDynamics(procs, order, cfg, t - last)
        ranked    == calculateResonantPriorities(moved, order, t)
        decisions == makeDecisions(ranked, order, cfg)
    IN  ExecuteDecisions(PromotePending(ranked), decisions, t)

\* schedule(): SchedulingDecision[], called when the clock reads t
ScheduleAt(t) ==
    /\ Called
    /\ now' = t
    /\ processes' = scheduled(processes, procOrder, schedConfig, lastScheduleTime, t)
    /\ lastScheduleTime' = t
    /\ schedTick' = schedTick + 1
    /\ UNCHANGED <<procOrder, schedConfig, schedFrame>>

\* schedule() called dt ms after the last reading of the clock
Schedule == \E dt \in ElapsedSet : now + dt \in ClockValues /\ ScheduleAt(now + dt)

\* the task submitted last to a scheduler that already runs tasks: processClass,
\* options.priority (also outside 0..100), options.coherenceRequired, the phase
\* drawn, and options.coherenceDeadline in ms relative to the submission (the
\* default is 60 s ahead; one deadline lies an hour in the past)
LateSubmitSet ==
    {[processClass |-> "classical", priority |-> 90000, coherenceRequired |-> 900,
      phase |-> 0, deadlineIn |-> 60000],
     [processClass |-> "classical", priority |-> 150000, coherenceRequired |-> 0,
      phase |-> 4, deadlineIn |-> 0 - 3600000],
     [processClass |-> "quantum", priority |-> 0 - 50000, coherenceRequired |-> 0,
      phase |-> 8, deadlineIn |-> 60000]}

\* the registry after submit("t1"), submit("t2"), one schedule() and submit("t3"),
\* all made when the clock reads t
LoadedRegistry(cfg, o1, o2, o3, t) ==
    LET first == MapSet(MapSet(<<>>, "t1",
                               NewProcess(cfg, "t1", o1.processClass, o1.priority,
                                          o1.coherenceRequired, o1.phase, t)),
                        "t2",
                        NewProcess(cfg, "t2", o2.processClass, o2.priority,
                                   o2.coherenceRequired, o2.phase, t))
        late  == NewProcess(cfg, "t3", o3.processClass, o3.priority,
                            o3.coherenceRequired, o3.phase, t)
    IN  MapSet(scheduled(first, <<"t1", "t2">>, cfg, t, t), "t3",
               [late EXCEPT !.coherenceDeadline = t + o3.deadlineIn])

\* a scheduler that went through one cycle with two tasks and then received a
\* third; the calls explored are counted from here
LoadedInit ==
    /\ now = Epoch
    /\ schedConfig \in {[DefaultSchedConfig EXCEPT !.maxRunning = m] : m \in MaxRunningSet}
    /\ \E o1, o2 \in SubmitSet, o3 \in LateSubmitSet :
          processes = LoadedRegistry(schedConfig, o1, o2, o3, Epoch)
    /\ procOrder = <<"t1", "t2", "t3">>
    /\ schedTick = 1
    /\ lastScheduleTime = Epoch
    /\ schedCalls = 0

\* a complete() that creates the record it does not find
completeOrCreate(procs, id, t) ==
    IF id \notin DOMAIN procs
    THEN MapSet(procs, id, [id |-> id, state |-> "completed", completedAt |-> t])
    ELSE [procs EXCEPT ![id] = [procs[id] EXCEPT !.state = "completed", !.completedAt = t]]

\* a complete() that drops the finished record
completeAndPurge(procs, id, t) == MapDelete(procs, id)

\* complete(id): the registry after the call made when the clock reads t
complete(procs, id, t) ==
    IF id \notin DOMAIN procs THEN procs
    ELSE LET p == procs[id]
             started == p.startedAt # Undefined /\ p.startedAt # 0
         IN  [procs EXCEPT ![id] =
                [p EXCEPT !.state = "completed", !.completedAt = t,
                          !.executionTime = IF started THEN t - p.startedAt
                                            ELSE p.executionTime]]

\* block(id, reason): the registry after the call
block(procs, id) ==
    IF id \notin DOMAIN procs THEN procs
    ELSE [procs EXCEPT ![id] = [procs[id] EXCEPT !.state = "blocked"]]

\* an unblock() that makes any task ready
unblockAny(procs, id) ==
    IF id \in DOMAIN procs
    THEN [procs EXCEPT ![id] = [procs[id] EXCEPT !.state = "ready"]]
    ELSE procs

\* unblock(id): the registry after the call
unblock(procs, id) ==
    IF id \in DOMAIN procs /\ procs[id].state = "blocked"
    THEN [procs EXCEPT ![id] = [procs[id] EXCEPT !.state = "ready"]]
    ELSE procs

\* getState(): SchedulerState, the fields read from the registry
getState(procs, order) ==
    LET mf     == SchedOrderParameter(procs, order)
        active == SelectSeq(order, LAMBDA id : procs[id].state # "completed")
        coherenceSum == SumIn([id \in DOMAIN procs |->
                                  (CosAt(Abs(procs[id].phase - mf.psi)) + 1000) \div 2],
                              {active[i] : i \in DOMAIN active})
    IN  [orderParameter |-> mf.r,
         meanPhase |-> mf.psi,
         systemCoherence |-> IF Len(active) > 0 THEN coherenceSum \div Len(active) ELSE 0,
         processCount |-> Cardinality(DOMAIN procs),
         runningCount |-> Len(getProcessesByState(procs, order, "running"))]

\* getProcess(id): ResonantProcess | undefined
getProcess(procs, id) == IF id \in DOMAIN procs THEN procs[id] ELSE Undefined

\* complete(id): void
Complete(id) ==
    /\ Called
    /\ processes' = complete(processes, id, now)
    /\ UNCHANGED <<procOrder, schedConfig, schedTick, lastScheduleTime, now, schedFrame>>

\* block(id, reason): void
Block(id) ==
    /\ Called
    /\ processes' = block(processes, id)
    /\ UNCHANGED <<procOrder, schedConfig, schedTick, lastScheduleTime, now, schedFrame>>

\* unblock(id): void
Unblock(id) ==
    /\ Called
    /\ processes' = unblock(processes, id)
    /\ UNCHANGED <<procOrder, schedConfig, schedTick, lastScheduleTime, now, schedFrame>>

\* remove(id): void
Remove(id) ==
    /\ Called
    /\ processes' = MapDelete(processes, id)
    /\ procOrder' = OrderDelete(procOrder, id)
    /\ UNCHANGED <<schedConfig, schedTick, lastScheduleTime, now, schedFrame>>

\* reset(): void
SchedReset ==
    /\ processes' = <<>>
    /\ procOrder' = <<>>
    /\ schedTick' = 0
    /\ lastScheduleTime' = now
    /\ schedCalls' = 0
    /\ UNCHANGED <<schedConfig, now, schedFrame>>

\* the cycles counted by this.tick that a run without end tells apart
MaxTick == 3

\* the tasks of the loaded scheduler
LoadedIds == {"t1", "t2", "t3"}

\* schedule() in a run without end: the client keeps calling, the clock stops
\* advancing at its last reading, and this.tick (reported, never read by a
\* decision) is followed up to MaxTick
ScheduleForever ==
    \E dt \in ElapsedSet :
        /\ now + dt \in ClockValues
        /\ now' = now + dt
        /\ processes' = scheduled(processes, procOrder, schedConfig, lastScheduleTime, now + dt)
        /\ lastScheduleTime' = now + dt
        /\ schedTick' = Min(schedTick + 1, MaxTick)
        /\ UNCHANGED <<procOrder, schedConfig, schedCalls, schedFrame>>

\* ENABLED <<ScheduleForever>>_vars written out: a schedule() call made now would
\* change the clock, the time of the last cycle, the counter or the registry
ScheduleChanges ==
    \E dt \in ElapsedSet :
        /\ now + dt \in ClockValues
        /\ \/ dt > 0
           \/ lastScheduleTime # now
           \/ schedTick < MaxTick
           \/ scheduled(processes, procOrder, schedConfig, lastScheduleTime, now + dt)
                  # processes

\* complete(id) called by the client for a task it finds running
CompleteRunning(id) ==
    /\ id \in DOMAIN processes
    /\ processes[id].state = "running"
    /\ processes' = complete(processes, id, now)
    /\ UNCHANGED <<procOrder, schedConfig, schedTick, lastScheduleTime, schedCalls, now,
                   schedFrame>>

CompleteSomeRunning == \E id \in LoadedIds : CompleteRunning(id)

SchedComplete == \E id \in TaskIds : Complete(id)

SchedBlock == \E id \in TaskIds : Block(id)

SchedUnblock == \E id \in TaskIds : Unblock(id)

SchedRemove == \E id \in TaskIds : Remove(id)

----------------------------------------------------------------------------
(* QueenSynchronizer: inputs and bounds *)

\* QueenSynchronizer calls explored after construction / reset()
MaxQueenCalls == 4

\* calls of one client to the scheduler and the synchronizer together
MaxSystemCalls == 3

\* synchronization steps explored
MaxSteps == 2

AgentIds == {"a1", "a2"}

\* the agents registered: type and the phase drawn by Math.random() * 2 * Math.PI
\* (in grid steps); an achiral, a left-handed and a right-handed agent
RegisterSet ==
    {[type |-> "resonance", phase |-> 0],
     [type |-> "emergence", phase |-> 4],
     [type |-> "chiral", phase |-> 8]}

\* injectSignal(id, phaseOffset, energyBoost): offsets in grid steps
InjectSet ==
    {[phaseOffset |-> -6, energyBoost |-> 0],
     [phaseOffset |-> 3, energyBoost |-> 500]}

\* config.syncInterval, ms: the default and one long enough to move a phase by a
\* grid step per tick
SyncIntervalSet == {SyncIntervalDefault, 400}

\* (Math.random() - 0.5) * 0.01, milli rad/s
NoiseSet == {-5, 0, 4}

----------------------------------------------------------------------------
(* QueenSynchronizer: construction and registry *)

DefaultQueenConfig ==
    [baseCoupling |-> (K_OPERATING * LAMBDA_RESONANCE) \div 1000,
     adaptiveRate |-> AdaptiveRateDefault,
     chiralEta |-> CHIRAL_ETA_DEFAULT,
     targetCoherence |-> RESONANCE_BAND_MAX,
     phiThreshold |-> PhiThresholdDefault,
     syncInterval |-> SyncIntervalDefault]

\* the queenState object built by the constructor and by reset()
InitialQueenState(cfg) ==
    [centralPhase |-> 0, orderParameter |-> 0, meanPhase |-> 0,
     couplingStrength |-> cfg.baseCoupling, chiralBias |-> cfg.chiralEta,
     coherenceLevel |-> 0, phiValue |-> 0, stabilityScore |-> 1000]

baseFrequencies(type) ==
    CASE type = "resonance" -> 1000
      [] type = "emergence" -> PHI_INVERSE
      [] type = "safety" -> (PHI_INVERSE * PHI_INVERSE) \div 1000
      [] type = "chiral" -> PHI
      [] type = "quantum" -> (PHI * PHI_INVERSE) \div 1000
      [] type = "scheduler" -> (PHI_INVERSE * 3) \div 2
      [] type = "consciousness" -> PHI
      [] type = "collective" -> (PHI_INVERSE * PHI) \div 1000
      [] type = "biofield" -> (1000 * 1000 * 1000) \div (PHI * PHI)

assignHandedness(type) ==
    CASE type \in {"resonance", "scheduler", "collective"} -> "achiral"
      [] type \in {"emergence", "safety", "biofield"} -> "left"
      [] type \in {"chiral", "quantum", "consciousness"} -> "right"

\* the SubsystemState record built by registerSubsystem()
NewSubsystem(id, type, phase0, t) ==
    [id |-> id, type |-> type, phase |-> phase0, frequency |-> baseFrequencies(type),
     coherence |-> 500, energy |-> 1000, handedness |-> assignHandedness(type),
     lastUpdate |-> t]

QueenInit ==
    /\ subsystems = <<>>
    /\ queenConfig \in {[DefaultQueenConfig EXCEPT !.syncInterval = i] : i \in SyncIntervalSet}
    /\ queenState = InitialQueenState(queenConfig)
    /\ syncTimer = "null"
    /\ timersArmed = 0
    /\ queenTick = 0
    /\ queenHistory = <<>>
    /\ inStep = 0
    /\ queenCalls = 0
    /\ steps = 0
    /\ publications = <<>>
    /\ startsIgnored = 0

\* the synchronizer constructed and left alone
QueenIdle ==
    /\ subsystems = <<>>
    /\ queenConfig = DefaultQueenConfig
    /\ queenState = InitialQueenState(queenConfig)
    /\ syncTimer = "null"
    /\ timersArmed = 0
    /\ queenTick = 0
    /\ queenHistory = <<>>
    /\ inStep = 0
    /\ queenCalls = 0
    /\ steps = 0
    /\ publications = <<>>
    /\ startsIgnored = 0

\* one more call of the synchronizer's interface by its client; a call runs only
\* when no synchronization step is on the stack (run to completion)
QueenCalled ==
    /\ inStep = 0
    /\ queenCalls < MaxQueenCalls
    /\ queenCalls' = queenCalls + 1

\* registerSubsystem(id, type): void
registerSubsystem(id, type, phase0) ==
    /\ QueenCalled
    /\ subsystems' = MapSet(subsystems, id, NewSubsystem(id, type, phase0, now))
    /\ UNCHANGED <<queenState, queenConfig, syncTimer, timersArmed, queenTick, queenHistory,
                   inStep, steps, publications, startsIgnored, queenFrame>>

QueenRegister ==
    \E id \in AgentIds, a \in RegisterSet : registerSubsystem(id, a.type, a.phase)

\* unregisterSubsystem(id): void
unregisterSubsystem(id) ==
    /\ QueenCalled
    /\ subsystems' = MapDelete(subsystems, id)
    /\ UNCHANGED <<queenState, queenConfig, syncTimer, timersArmed, queenTick, queenHistory,
                   inStep, steps, publications, startsIgnored, queenFrame>>

QueenUnregister == \E id \in AgentIds : unregisterSubsystem(id)

\* injectSignal(subsystemId, phaseOffset, energyBoost): the registry after the call
SignalInjected(subs, id, phaseOffset, energyBoost) ==
    IF id \notin DOMAIN subs THEN subs
    ELSE [subs EXCEPT ![id] =
            [@ EXCEPT !.phase = JsRem(@ + phaseOffset, PhaseSteps),
                      !.energy = @ + energyBoost]]

\* getSubsystemState(id): SubsystemState | undefined
getSubsystemState(subs, id) == IF id \in DOMAIN subs THEN subs[id] ELSE Undefined

\* injectSignal(subsystemId, phaseOffset, energyBoost): void
injectSignal(id, phaseOffset, energyBoost) ==
    /\ QueenCalled
    /\ subsystems' = SignalInjected(subsystems, id, phaseOffset, energyBoost)
    /\ UNCHANGED <<queenState, queenConfig, syncTimer, timersArmed, queenTick, queenHistory,
                   inStep, steps, publications, startsIgnored, queenFrame>>

QueenInject ==
    \E id \in AgentIds, sig \in InjectSet : injectSignal(id, sig.phaseOffset, sig.energyBoost)

\* start() without its first line
startUnguarded ==
    /\ QueenCalled
    /\ syncTimer' = "timeout"
    /\ timersArmed' = timersArmed + 1
    /\ startsIgnored' = startsIgnored
    /\ UNCHANGED <<subsystems, queenState, queenConfig, queenTick, queenHistory,
                   inStep, steps, publications, queenFrame>>

\* start(): void
start ==
    /\ QueenCalled
    /\ IF syncTimer # "null"
          THEN /\ startsIgnored' = startsIgnored + 1
               /\ UNCHANGED <<syncTimer, timersArmed>>
          ELSE /\ syncTimer' = "timeout"
               /\ timersArmed' = timersArmed + 1
               /\ UNCHANGED startsIgnored
    /\ UNCHANGED <<subsystems, queenState, queenConfig, queenTick, queenHistory,
                   inStep, steps, publications, queenFrame>>

\* a stop() that forgets the handle without clearing the interval
StopTimerLeavesInterval ==
    /\ syncTimer' = "null"
    /\ timersArmed' = timersArmed

\* stop(): the timer fields after the call
StopTimer ==
    /\ syncTimer' = "null"
    /\ timersArmed' = IF syncTimer # "null" THEN timersArmed - 1 ELSE timersArmed

\* a stop() that also empties the registry
stopAndClear ==
    /\ QueenCalled
    /\ StopTimer
    /\ subsystems' = <<>>
    /\ UNCHANGED <<queenState, queenConfig, queenTick, queenHistory,
                   inStep, steps, publications, startsIgnored, queenFrame>>

\* stop(): void
stop ==
    /\ QueenCalled
    /\ StopTimer
    /\ UNCHANGED <<subsystems, queenState, queenConfig, queenTick, queenHistory,
                   inStep, steps, publications, startsIgnored, queenFrame>>

\* reset(): void
QueenReset ==
    /\ inStep = 0
    /\ StopTimer
    /\ subsystems' = <<>>
    /\ queenHistory' = <<>>
    /\ queenTick' = 0
    /\ queenState' = InitialQueenState(queenConfig)
    /\ queenCalls' = 0
    /\ startsIgnored' = 0
    /\ UNCHANGED <<queenConfig, inStep, steps, publications, queenFrame>>

----------------------------------------------------------------------------
(* QueenSynchronizer: one synchronization step *)

\* the registry's ids, in any one order (the sums below do not depend on it)
RECURSIVE SeqOfSet(_)
SeqOfSet(S) == IF S = {} THEN <<>> ELSE LET x == CHOOSE y \in S : TRUE
                                        IN  <<x>> \o SeqOfSet(S \ {x})

\* private calculateOrderParameter(): over every registered subsystem
QueenOrderParameter(subs) == OrderParameter(PhasesOf(subs, SeqOfSet(DOMAIN subs)))

\* a derivative with a bias of 1 rad/s on the agent a1
calculatePhaseDerivativeBiased(st, r, psi, qs, noise) ==
    st.frequency + noise + (IF st.id = "a1" THEN 1000 ELSE 0)

\* private calculatePhaseDerivative(state, r, psi), milli-rad/s
calculatePhaseDerivative(st, r, psi, qs, noise) ==
    LET kuramoto == RoundDiv(RoundDiv(qs.couplingStrength * r, 1000)
                             * SinAt(psi - st.phase), 1000)
        twice    == RoundDiv(qs.chiralBias * SinAt(2 * (psi - st.phase)), 1000)
        chiralFactor == IF st.handedness = "left" THEN twice
                        ELSE IF st.handedness = "right" THEN -twice
                        ELSE 0
    IN  st.frequency + kuramoto + chiralFactor + noise

\* private calculateLocalCoherence(state, r, psi)
calculateLocalCoherence(st, psi) ==
    LET baseCoherence == CosAt(Abs(st.phase - psi))
    IN  IF st.handedness # "achiral"
            THEN Min(1000, (baseCoherence * CISS_COHERENCE_BOOST) \div 1000)
            ELSE Max(0, (baseCoherence + 1000) \div 2)

\* synchronizationStep(): the loop body for one subsystem
StepSubsystem(st, qs, cfg, noise, t) ==
    LET dPhase == calculatePhaseDerivative(st, qs.orderParameter, qs.meanPhase, qs, noise)
        moved  == [st EXCEPT !.phase = AdvancePhase(st.phase, dPhase, cfg.syncInterval)]
    IN  [moved EXCEPT !.coherence = calculateLocalCoherence(moved, qs.meanPhase),
                      !.lastUpdate = t]

\* private getSubsystemWeight(type)
getSubsystemWeight(type) ==
    CASE type = "resonance" -> 1500
      [] type = "emergence" -> 1200
      [] type = "safety" -> 1300
      [] type = "chiral" -> 1400
      [] type = "quantum" -> 1100
      [] type = "scheduler" -> 1000
      [] type = "consciousness" -> 1600
      [] type = "collective" -> 1200
      [] type = "biofield" -> 900

\* the sum of F(state) over the registry
SumOver(subs, F(_)) == SumIn([id \in DOMAIN subs |-> F(subs[id])], DOMAIN subs)

\* Math.log2(n + 1), milli
Log2Milli(n) == CASE n = 1 -> 1000 [] n = 2 -> 1585 [] n = 3 -> 2000 [] OTHER -> 2322

\* private hasChiralSubsystems()
hasChiralSubsystems(subs) == \E id \in DOMAIN subs : subs[id].handedness # "achiral"

\* private calculatePhi()
calculatePhi(subs, qs) ==
    LET n == Cardinality(DOMAIN subs)
        integration == (((qs.orderParameter * qs.coherenceLevel) \div 1000) * Log2Milli(n))
                       \div 1000
        chiralBoost == IF hasChiralSubsystems(subs) THEN CISS_COHERENCE_BOOST ELSE 1000
    IN  IF n < 2 THEN 0 ELSE Min(PhiMax, (integration * 10 * chiralBoost) \div 1000)

\* private calculateChiralStability()
calculateChiralStability(qs) ==
    LET ratio == Abs(qs.chiralBias)
    IN  IF ratio <= STABLE_MAX_RATIO THEN 1000
        ELSE IF ratio <= TRANSITIONAL_MAX_RATIO THEN 700
        ELSE 300

\* Math.sin of an angle given in milli-rad, through the grid
SinMilliRad(x) == SinAt(RoundDiv(x * PhaseSteps * 1000, TwoPiMicro))

\* k grid steps in milli-rad
GridToMilliRad(k) == RoundDiv(k * TwoPiMicro, PhaseSteps * 1000)

\* private updateQueenState()
updateQueenState(subs, qs) ==
    LET phaseDiff == GridToMilliRad(qs.meanPhase) - qs.centralPhase
        Weighted(st) == st.coherence * getSubsystemWeight(st.type)
        Weight(st) == getSubsystemWeight(st.type)
        totalCoherence == SumOver(subs, Weighted)
        totalWeight == SumOver(subs, Weight)
        q1 == [qs EXCEPT !.centralPhase = @ + SinMilliRad(phaseDiff) \div 10,
                         !.coherenceLevel = IF totalWeight > 0
                                                THEN totalCoherence \div totalWeight ELSE 0]
        q2 == [q1 EXCEPT !.phiValue = calculatePhi(subs, q1)]
    IN  [q2 EXCEPT !.stabilityScore = calculateChiralStability(q2)]

\* private adaptCoupling()
adaptCoupling(qs, cfg) ==
    LET error == cfg.targetCoherence - qs.coherenceLevel
        adjustment == RoundDiv(cfg.adaptiveRate * error, 1000)
    IN  [qs EXCEPT !.couplingStrength = Max(CouplingMin, Min(CouplingMax, @ + adjustment))]

\* Math.exp(-x) for x in milli, 0 <= x <= 2000 (Horner form of the series)
ExpNeg(x) ==
    LET h5 == 1000 - x \div 5
        h4 == 1000 - (x * h5) \div 4000
        h3 == 1000 - (x * h4) \div 3000
        h2 == 1000 - (x * h3) \div 2000
    IN  1000 - (x * h2) \div 1000

\* getSynchronizationMetrics(): SynchronizationMetrics, for a non-empty registry
getSynchronizationMetrics(subs, qs, cfg) ==
    LET n == Cardinality(DOMAIN subs)
        SqDiff(st) == (GridToMilliRad(Abs(st.phase - qs.meanPhase))
                       * GridToMilliRad(Abs(st.phase - qs.meanPhase))) \div 1000
        Freq(st) == st.frequency
        avgFreq == SumOver(subs, Freq) \div n
        SqFreq(st) == ((st.frequency - avgFreq) * (st.frequency - avgFreq)) \div 1000
        freqVariance == SumOver(subs, SqFreq) \div n
        leftCount == Cardinality({id \in DOMAIN subs : subs[id].handedness = "left"})
        rightCount == Cardinality({id \in DOMAIN subs : subs[id].handedness = "right"})
    IN  [orderParameter |-> qs.orderParameter,
         phaseVariance |-> SumOver(subs, SqDiff) \div n,
         frequencySync |-> ExpNeg(freqVariance),
         chiralAsymmetry |-> (Abs(leftCount - rightCount) * 1000) \div n,
         emergenceSignature |->
            (((qs.orderParameter * qs.stabilityScore) \div 1000) * qs.phiValue) \div 10000,
         consciousnessThreshold |-> qs.phiValue >= cfg.phiThreshold]

\* recordMetrics(): history.push(metrics) and the shift beyond maxHistory
PushMetrics(hist, metrics) ==
    LET pushed == Append(hist, metrics)
    IN  IF Len(pushed) > maxHistory THEN Tail(pushed) ELSE pushed

\* recordMetrics(): whether consciousness-achieved is emitted
EmitsConsciousness(metrics, tick) ==
    metrics.consciousnessThreshold /\ tick % PublicationPeriod = 0

\* the interval timer fires: synchronizationStep() is entered and, with a
\* non-empty registry, stores the mean field of the phases it finds
SyncStepBegin ==
    /\ timersArmed > 0
    /\ inStep = 0
    /\ steps < MaxSteps
    /\ inStep' = inStep + 1
    /\ queenState' =
        IF subsystems = <<>> THEN queenState
        ELSE LET mf == QueenOrderParameter(subsystems)
             IN  [queenState EXCEPT !.orderParameter = mf.r, !.meanPhase = mf.psi]
    /\ UNCHANGED <<subsystems, queenConfig, syncTimer, timersArmed, queenTick, queenHistory,
                   queenCalls, steps, publications, startsIgnored, queenFrame>>

\* synchronizationStep() runs to its end: the early return of an empty registry,
\* or the phase updates, the queen state, the coupling, the metrics and the tick
SyncStepEnd ==
    /\ inStep > 0
    /\ inStep' = inStep - 1
    /\ IF subsystems = <<>>
          THEN UNCHANGED <<subsystems, queenState, queenTick, queenHistory, steps, publications>>
          ELSE \E noise \in [DOMAIN subsystems -> NoiseSet] :
                LET subs    == [id \in DOMAIN subsystems |->
                                   StepSubsystem(subsystems[id], queenState, queenConfig,
                                                 noise[id], now)]
                    qs      == adaptCoupling(updateQueenState(subs, queenState), queenConfig)
                    metrics == getSynchronizationMetrics(subs, qs, queenConfig)
                IN  /\ subsystems' = subs
                    /\ queenState' = qs
                    /\ queenHistory' = PushMetrics(queenHistory, metrics)
                    /\ publications' =
                          IF EmitsConsciousness(metrics, queenTick)
                              THEN Append(publications, steps + 1) ELSE publications
                    /\ queenTick' = queenTick + 1
                    /\ steps' = steps + 1
    /\ UNCHANGED <<queenConfig, syncTimer, timersArmed, queenCalls, startsIgnored, queenFrame>>

QueenNext ==
    \/ QueenRegister
    \/ QueenUnregister
    \/ QueenInject
    \/ start
    \/ stop
    \/ QueenReset
    \/ SyncStepBegin
    \/ SyncStepEnd

----------------------------------------------------------------------------
(* Vectors: SignalProcessor, EmergenceAccumulator, calculateBridgeOperator *)

\* integrate() calls explored after construction / reset()
MaxIntegrations == 2

\* config.dimensions of the accumulator explored
AccDimensions == 2

\* the Float64Array values handed to the vector operations, in milli units
VectorSet ==
    {<<1000>>, <<1000, 0>>, <<0, -2000>>, <<1000, 1000, 2000>>}

DecayRateDefault == 10

AccDefaultConfig ==
    [decayRate |-> DecayRateDefault, integrationGain |-> 1000, maxNorm |-> EMERGENCE_NORM_MAX]

RECURSIVE SumProducts(_, _, _)
\* the loop sum += a[i] * b[i] over the first n components
SumProducts(a, b, n) ==
    IF n = 0 THEN 0 ELSE SumProducts(a, b, n - 1) + (a[n] * b[n]) \div 1000

\* computeNorm(data)
computeNorm(data) == RSqrt(1000 * SumProducts(data, data, Len(data)))

\* SignalProcessor.from(input): Signal
from(input) == [data |-> input, dimensions |-> Len(input)]

\* how a call ended: the value returned, or the Error thrown
Returned(v) == [raised |-> FALSE, value |-> v]

Thrown == [raised |-> TRUE, value |-> 0]

\* SignalProcessor.dot(a, b)
dot(a, b) ==
    IF a.dimensions # b.dimensions THEN Thrown
    ELSE Returned(SumProducts(a.data, b.data, Len(a.data)))

\* dot product over normA * normB, or 0 when a norm is 0
CosineOf(dotProduct, normA, normB) ==
    IF normA = 0 \/ normB = 0 THEN 0 ELSE (dotProduct * 1000) \div ((normA * normB) \div 1000)

\* SignalProcessor.cosineSimilarity(a, b)
cosineSimilarity(a, b) ==
    LET dotProduct == dot(a, b)
    IN  IF dotProduct.raised THEN Thrown
        ELSE Returned(CosineOf(dotProduct.value, computeNorm(a.data), computeNorm(b.data)))

\* private EmergenceAccumulator.cosineSimilarity(a, b)
AccCosineSimilarity(a, b) ==
    LET minLen == Min(Len(a), Len(b))
    IN  CosineOf(SumProducts(a, b, minLen),
                 RSqrt(1000 * SumProducts(a, a, minLen)),
                 RSqrt(1000 * SumProducts(b, b, minLen)))

\* normalize(): state[i] /= norm
normalize(state) ==
    LET norm == computeNorm(state)
    IN  IF norm > 0 THEN [i \in DOMAIN state |-> (state[i] * 1000) \div norm] ELSE state

\* private storePattern(pattern)
storePattern(patterns, pattern) ==
    LET pushed == Append(patterns, pattern)
    IN  IF Len(pushed) > maxPatterns THEN Tail(pushed) ELSE pushed

\* integrate(emergence): the accumulator after the call
integrate(acc, emergence) ==
    LET decayed == [i \in DOMAIN acc.state |->
                       (acc.state[i] * (1000 - acc.config.decayRate)) \div 1000]
        added   == [i \in DOMAIN decayed |->
                       IF i <= Min(Len(emergence), Len(decayed))
                           THEN decayed[i] + (acc.config.integrationGain * emergence[i]) \div 1000
                           ELSE decayed[i]]
        stored  == IF computeNorm(emergence) > 10 THEN storePattern(acc.patterns, emergence)
                   ELSE acc.patterns
        kept    == IF computeNorm(added) > acc.config.maxNorm THEN normalize(added) ELSE added
    IN  [acc EXCEPT !.state = kept, !.patterns = stored, !.tick = @ + 1]

\* query({pattern, threshold}): the indices of the matches, by similarity
query(acc, pattern, threshold) ==
    SelectSeq([i \in DOMAIN acc.patterns |-> i],
              LAMBDA i : AccCosineSimilarity(pattern, acc.patterns[i]) >= threshold)

\* calculateBridgeOperator(resonanceState, emergenceState)
calculateBridgeOperator(resonanceState, emergenceState) ==
    LET n    == Min(Len(resonanceState), Len(emergenceState))
        nxt(i) == (i % n) + 1
        rg   == [i \in 1..n |-> (resonanceState[i] * emergenceState[nxt(i)]) \div 1000]
        gr   == [i \in 1..n |-> (emergenceState[i] * resonanceState[nxt(i)]) \div 1000]
        ones == [i \in 1..n |-> 1000]
    IN  IF n = 0 THEN 0
        ELSE SumProducts(rg, ones, n) - SumProducts(gr, ones, n)

\* the operation called last: its name, the lengths of the two vectors it was
\* to combine, and how it ended
CallOut(op, lenA, lenB, out) ==
    [op |-> op, dims |-> <<lenA, lenB>>, raised |-> out.raised, value |-> out.value]

NoCall == [op |-> "none", dims |-> <<0, 0>>, raised |-> FALSE, value |-> 0]

\* new EmergenceAccumulator({dimensions})
VectorInit ==
    /\ accumulator = [state |-> [i \in 1..AccDimensions |-> 0], patterns |-> <<>>,
                      tick |-> 0, config |-> AccDefaultConfig]
    /\ vecOut = NoCall

\* processor.dot(processor.from(a), processor.from(b))
VecDot ==
    \E a \in VectorSet, b \in VectorSet :
        /\ vecOut' = CallOut("dot", Len(a), Len(b), dot(from(a), from(b)))
        /\ UNCHANGED <<accumulator, vectorFrame>>

\* processor.cosineSimilarity(processor.from(a), processor.from(b))
VecCosineSimilarity ==
    \E a \in VectorSet, b \in VectorSet :
        /\ vecOut' = CallOut("cosineSimilarity", Len(a), Len(b),
                             cosineSimilarity(from(a), from(b)))
        /\ UNCHANGED <<accumulator, vectorFrame>>

\* calculateBridgeOperator(a, b)
VecBridge ==
    \E a \in VectorSet, b \in VectorSet :
        /\ vecOut' = CallOut("calculateBridgeOperator", Len(a), Len(b),
                             Returned(calculateBridgeOperator(a, b)))
        /\ UNCHANGED <<accumulator, vectorFrame>>

\* accumulator.integrate(e)
VecIntegrate ==
    \E e \in VectorSet :
        /\ accumulator.tick < MaxIntegrations
        /\ accumulator' = integrate(accumulator, e)
        /\ vecOut' = CallOut("integrate", Len(accumulator.state), Len(e),
                             Returned(computeNorm(accumulator'.state)))
        /\ UNCHANGED vectorFrame

\* accumulator.query({pattern, threshold: 0.5}) with a pattern stored; the lengths
\* recorded are the query's and the first stored pattern's of another length, if any
VecQuery ==
    \E pattern \in VectorSet :
        /\ accumulator.patterns # <<>>
        /\ LET other == SelectSeq(accumulator.patterns, LAMBDA q : Len(q) # Len(pattern))
               lenB  == IF other = <<>> THEN Len(pattern) ELSE Len(other[1])
           IN  vecOut' = CallOut("query", Len(pattern), lenB,
                                 Returned(Len(query(accumulator, pattern, 500))))
        /\ UNCHANGED <<accumulator, vectorFrame>>

\* accumulator.reset()
VecReset ==
    /\ accumulator' = [accumulator EXCEPT !.state = [i \in DOMAIN @ |-> 0],
                                          !.patterns = <<>>, !.tick = 0]
    /\ UNCHANGED <<vecOut, vectorFrame>>

----------------------------------------------------------------------------
(* ChiralEngine *)

\* config.eta and config.gamma handed to the constructor, in milli units
EtaSet == {-1600, -1500, -1000, 0, 500, CHIRAL_ETA_DEFAULT, 1000, 1001, 1500, 1501}

GammaSet == {0, 500, GammaDefault, 2000}

\* |eta / (gamma + 1e-10)| <= maxRatio, for eta and gamma on the milli grid: the
\* 1e-10 is below the grid's resolution and decides only where gamma <= 0
VelocityAtMost(eta, gamma, maxRatio) ==
    IF gamma >= 0 THEN Abs(eta) * 1000 <= maxRatio * gamma
    ELSE eta = 0 \/ Abs(eta) * 1000 < maxRatio * Abs(gamma)

\* getStabilityRegime() with strict comparisons
getStabilityRegimeStrict(engine) ==
    IF ~VelocityAtMost(engine.eta, engine.gamma, TRANSITIONAL_MAX_RATIO)
           \/ Abs(engine.eta) * 1000 = TRANSITIONAL_MAX_RATIO * engine.gamma
        THEN "unstable"
    ELSE IF ~VelocityAtMost(engine.eta, engine.gamma, STABLE_MAX_RATIO)
           \/ Abs(engine.eta) * 1000 = STABLE_MAX_RATIO * engine.gamma
        THEN "transitional"
    ELSE "stable"

\* getStabilityRegime(): 'stable' | 'transitional' | 'unstable'
getStabilityRegime(engine) ==
    IF VelocityAtMost(engine.eta, engine.gamma, STABLE_MAX_RATIO) THEN "stable"
    ELSE IF VelocityAtMost(engine.eta, engine.gamma, TRANSITIONAL_MAX_RATIO)
        THEN "transitional"
    ELSE "unstable"

NotQueried == [regime |-> "none", score |-> 0]

\* the private fields as the constructor leaves them
InitialModes(protected) ==
    [topologicalProtection |-> protected, leftModeAmplitude |-> 0,
     rightModeAmplitude |-> 0, windingNumber |-> 0]

\* no field handed to the engine yet
NoField == [state |-> <<>>, velocity |-> <<>>, steps |-> 0]

\* new ChiralEngine({eta, gamma})
ChiralInit ==
    /\ chiralEngine \in [eta : EtaSet, gamma : GammaSet]
    /\ chiralOut = NotQueried
    /\ chiralModes = InitialModes(TRUE)
    /\ chiralField = NoField

\* new ChiralEngine(), left alone
ChiralIdle ==
    /\ chiralEngine = [eta |-> CHIRAL_ETA_DEFAULT, gamma |-> GammaDefault]
    /\ chiralOut = NotQueried
    /\ chiralModes = InitialModes(TRUE)
    /\ chiralField = NoField

\* engine.getStabilityRegime()
ChiralGetRegime ==
    /\ chiralOut' = [chiralOut EXCEPT !.regime = getStabilityRegime(chiralEngine)]
    /\ UNCHANGED <<chiralEngine, chiralModes, chiralField, chiralFrame>>

\* the stabilityScore of a QueenSynchronizer constructed with chiralEta = eta, as
\* its updateQueenState() computes it
ChiralQueenScore ==
    /\ chiralOut' = [chiralOut EXCEPT !.score =
            calculateChiralStability(
                InitialQueenState([DefaultQueenConfig EXCEPT !.chiralEta = chiralEngine.eta]))]
    /\ UNCHANGED <<chiralEngine, chiralModes, chiralField, chiralFrame>>

----------------------------------------------------------------------------
(* ChiralEngine: optimizeForStability *)

\* the target of optimizeForStability() when the caller names none
TargetVelocityDefault == 618

\* config.gamma over the supported range [DAMPING_MIN, DAMPING_MAX]
SupportedGammaSet == {DAMPING_MIN, 300, 310, 500, GammaDefault, 2618, DAMPING_MAX}

\* optimizeForStability(targetVelocity): eta = targetVelocity * gamma, kept
\* within [PHI_INVERSE * 0.5, PHI]
optimizeForStability(engine, targetVelocity) ==
    [engine EXCEPT !.eta = Max(PHI_INVERSE \div 2,
                               Min(PHI, RoundDiv(targetVelocity * engine.gamma, 1000)))]

\* new ChiralEngine({eta, gamma}) with gamma in the supported range
ChiralTuneInit ==
    /\ chiralEngine \in [eta : EtaSet, gamma : SupportedGammaSet]
    /\ chiralOut = NotQueried
    /\ chiralModes = InitialModes(TRUE)
    /\ chiralField = NoField

\* engine.optimizeForStability()
ChiralOptimize ==
    /\ chiralEngine' = optimizeForStability(chiralEngine, TargetVelocityDefault)
    /\ UNCHANGED <<chiralOut, chiralModes, chiralField, chiralFrame>>

----------------------------------------------------------------------------
(* ChiralEngine: applyChiralDynamics *)

\* applyChiralDynamics calls explored on one field
MaxChiralSteps == 4

\* the fields handed to the first call, in milli-rad: at rest at 0, uniform, one
\* full turn along the ring, a single pulse, and a field with negative edges
FieldSet ==
    {<<0, 0, 0, 0>>, <<1000, 1000, 1000, 1000>>, <<0, 1571, 3142, 4712>>,
     <<1000, 0, 0, 0>>, <<-500, 200, 300, -400>>}

\* the velocities handed to the first call, in milli-rad/s
VelocitySet == {<<0, 0, 0, 0>>, <<1000, 1000, 1000, 1000>>}

\* dt of a call, in ms
DtSet == {100, 500}

\* config.gamma of the engines that run the dynamics
DynamicsGammaSet == {0, 500, GammaDefault}

\* Math.atan2(Math.sin(d), Math.cos(d)): the angle d (micro-rad) brought into
\* (-pi, pi]
WrapHalfTurn(micro) ==
    LET y == micro % TwoPiMicro
    IN  IF 2 * y > TwoPiMicro THEN y - TwoPiMicro ELSE y

\* Math.sin of x milli-rad, in milli units: the argument reduced to
\* [-pi/2, pi/2], then the series x - x^3/3! + x^5/5! - x^7/7! in Horner form
SinMilli(x) ==
    LET y  == WrapHalfTurn(x * 1000)
        q  == TwoPiMicro \div 4
        f  == IF y > q THEN TwoPiMicro \div 2 - y
              ELSE IF y < 0 - q THEN 0 - (TwoPiMicro \div 2) - y
              ELSE y
        z  == RoundDiv(f, 1000)
        z2 == RoundDiv(z * z, 1000)
        h3 == 1000 - RoundDiv(z2, 42)
        h2 == 1000 - RoundDiv(z2 * h3, 20000)
        h1 == 1000 - RoundDiv(z2 * h2, 6000)
    IN  RoundDiv(z * h1, 1000)

\* Math.sign
Sign(x) == IF x > 0 THEN 1 ELSE IF x < 0 THEN 0 - 1 ELSE 0

\* state[(i + n) % n] for a zero-based index i
Ring(state, i) == state[((i + Len(state)) % Len(state)) + 1]

\* the acceleration of element i (zero-based):
\* laplacian - sin(phi) - eta * gradient - gamma * velocity
acceleration(engine, state, velocity, i) ==
    LET prev      == Ring(state, i - 1)
        next      == Ring(state, i + 1)
        laplacian == prev - 2 * Ring(state, i) + next
        nonlinear == SinMilli(Ring(state, i))
    IN  laplacian - nonlinear
        - RoundDiv(engine.eta * (next - prev), 2 * 1000)
        - RoundDiv(engine.gamma * Ring(velocity, i), 1000)

\* newVelocity[i] = velocity[i] + acceleration * dt, from element i (zero-based) on
RECURSIVE NewVelocityFrom(_, _, _, _, _)
NewVelocityFrom(engine, state, velocity, dt, i) ==
    IF i >= Len(state) THEN <<>>
    ELSE <<velocity[i + 1]
           + RoundDiv(acceleration(engine, state, velocity, i) * dt, 1000)>>
         \o NewVelocityFrom(engine, state, velocity, dt, i + 1)

\* newState[i] = state[i] + newVelocity[i] * dt, from element i (zero-based) on
RECURSIVE NewStateFrom(_, _, _, _)
NewStateFrom(state, newVelocity, dt, i) ==
    IF i >= Len(state) THEN <<>>
    ELSE <<state[i + 1] + RoundDiv(newVelocity[i + 1] * dt, 1000)>>
         \o NewStateFrom(state, newVelocity, dt, i + 1)

\* the loop of applyChiralDynamics: newVelocity and newState of every element
EulerStep(engine, state, velocity, dt) ==
    LET newVelocity == NewVelocityFrom(engine, state, velocity, dt, 0)
    IN  [state |-> NewStateFrom(state, newVelocity, dt, 0), velocity |-> newVelocity]

\* state[k] *= (1 - protection) + protection * Math.sign(state[k]);
\* velocity[k] *= (1 - protection * 0.5), for the one-based index k
ProtectElement(f, k, protection) ==
    [state    |-> [f.state EXCEPT ![k] =
                      RoundDiv(@ * (1000 - protection + protection * Sign(@)), 1000)],
     velocity |-> [f.velocity EXCEPT ![k] = RoundDiv(@ * (2000 - protection), 2000)]]

\* the loop of applyTopologicalProtection from i on: left edge, then right edge
RECURSIVE ProtectEdges(_, _, _)
ProtectEdges(f, i, edgeWidth) ==
    IF i >= edgeWidth THEN f
    ELSE LET protection == RoundDiv(TOPOLOGICAL_PROTECTION_FACTOR * (edgeWidth - i),
                                    edgeWidth)
             left       == ProtectElement(f, i + 1, protection)
         IN  ProtectEdges(ProtectElement(left, Len(f.state) - i, protection),
                          i + 1, edgeWidth)

\* private applyTopologicalProtection(state, velocity); edgeWidth = ceil(n * 0.1)
applyTopologicalProtection(f) == ProtectEdges(f, 0, (Len(f.state) + 9) \div 10)

\* the sum over i of state[i] * cos (or sin) of TAU * k * i / n, from element i on
RECURSIVE ModeSum(_, _, _, _)
ModeSum(state, k, i, quarter) ==
    IF i >= Len(state) THEN 0
    ELSE RoundDiv(state[i + 1]
                  * CosAt(RoundDiv(PhaseSteps * k * i, Len(state)) - quarter), 1000)
         + ModeSum(state, k, i + 1, quarter)

\* the amplitude of mode k, and whether its phase is positive
ModeOf(state, k) ==
    LET realPart == ModeSum(state, k, 0, 0)
        imagPart == ModeSum(state, k, 0, PhaseSteps \div 4)
    IN  [amplitude |-> ISqrt(realPart * realPart + imagPart * imagPart) \div Len(state),
         right     |-> imagPart > 0 \/ (imagPart = 0 /\ realPart < 0)]

\* the sum of the amplitudes of the modes k..kMax that propagate to the right
\* (right = TRUE) or to the left
RECURSIVE ModeTotal(_, _, _, _)
ModeTotal(state, k, kMax, right) ==
    IF k > kMax THEN 0
    ELSE (IF ModeOf(state, k).right = right THEN ModeOf(state, k).amplitude ELSE 0)
         + ModeTotal(state, k + 1, kMax, right)

\* the sum of the wrapped differences state[i + 1] - state[i] around the ring,
\* from element i on, in micro-rad
RECURSIVE totalPhaseChange(_, _)
totalPhaseChange(state, i) ==
    IF i >= Len(state) THEN 0
    ELSE WrapHalfTurn((Ring(state, i + 1) - Ring(state, i)) * 1000)
         + totalPhaseChange(state, i + 1)

\* the sum of the wrapped values state[i], from element i on, in micro-rad
RECURSIVE WrappedValues(_, _)
WrappedValues(state, i) ==
    IF i >= Len(state) THEN 0
    ELSE WrapHalfTurn(Ring(state, i) * 1000) + WrappedValues(state, i + 1)

\* a winding number taken from the phases themselves, not from their differences
calculateWindingNumberOfValues(state) == RoundDiv(WrappedValues(state, 0), TwoPiMicro)

\* private calculateWindingNumber(state): Math.round(totalPhaseChange / TAU)
calculateWindingNumber(state) == RoundDiv(totalPhaseChange(state, 0), TwoPiMicro)

\* private updateChiralModes(state); the modes are k = 1 .. k < n / 2
updateChiralModes(modes, state) ==
    LET kMax == (Len(state) - 1) \div 2
    IN  [modes EXCEPT !.leftModeAmplitude = ModeTotal(state, 1, kMax, FALSE),
                      !.rightModeAmplitude = ModeTotal(state, 1, kMax, TRUE),
                      !.windingNumber = calculateWindingNumber(state)]

\* applyChiralDynamics(state, velocity, dt): the arrays returned and the
\* private fields after the call
applyChiralDynamics(engine, modes, state, velocity, dt) ==
    LET stepped   == EulerStep(engine, state, velocity, dt)
        protected == IF modes.topologicalProtection
                         THEN applyTopologicalProtection(stepped) ELSE stepped
    IN  [state |-> protected.state, velocity |-> protected.velocity,
         modes |-> updateChiralModes(modes, protected.state)]

\* new ChiralEngine({gamma, topologicalProtection}) and the arrays of the caller
ChiralFieldInit ==
    /\ chiralEngine \in [eta : {CHIRAL_ETA_DEFAULT}, gamma : DynamicsGammaSet]
    /\ chiralOut = NotQueried
    /\ chiralModes \in {InitialModes(b) : b \in BOOLEAN}
    /\ chiralField \in [state : FieldSet, velocity : VelocitySet, steps : {0}]

\* the caller passes the arrays of the last call back with a time step dt
ChiralApplyDynamics ==
    /\ chiralField.steps < MaxChiralSteps
    /\ \E dt \in DtSet :
          LET out == applyChiralDynamics(chiralEngine, chiralModes, chiralField.state,
                                         chiralField.velocity, dt)
          IN  /\ chiralField' = [state |-> out.state, velocity |-> out.velocity,
                                 steps |-> chiralField.steps + 1]
              /\ chiralModes' = out.modes
    /\ UNCHANGED <<chiralEngine, chiralOut, chiralFrame>>

----------------------------------------------------------------------------
(* Specifications: one component at work, the others constructed and idle *)

SafetyNext == SafetyCheck \/ SafetyReset

InitSafety == SafetyInit /\ SchedIdle /\ QueenIdle /\ VectorInit /\ ChiralIdle

SpecSafety == InitSafety /\ [][SafetyNext]_vars

SafetyAdviceNext == SafetyCheck \/ SafetyGetSummary \/ SafetyRecommend \/ SafetyReset

SpecSafetyAdvice == InitSafety /\ [][SafetyAdviceNext]_vars

SafetyFeedNext == SafetyFeedCheck \/ SafetyReset

InitSafetyFeed == SafetyFeedInit /\ SchedIdle /\ QueenIdle /\ VectorInit /\ ChiralIdle

SpecSafetyFeed == InitSafetyFeed /\ [][SafetyFeedNext]_vars

SchedNext ==
    \/ SchedSubmit
    \/ Schedule
    \/ SchedComplete
    \/ SchedBlock
    \/ SchedUnblock
    \/ SchedRemove
    \/ SchedReset

InitSched == SchedInit /\ SafetyInit /\ QueenIdle /\ VectorInit /\ ChiralIdle

SpecSched == InitSched /\ [][SchedNext]_vars

\* the calls that read or build on config: submit() and schedule(), with the
\* complete() that frees a slot for the next cycle
SchedConfigNext ==
    \/ SchedSubmit
    \/ Schedule
    \/ SchedComplete

SpecSchedConfig == InitSched /\ [][SchedConfigNext]_vars

InitQueen == QueenInit /\ SafetyInit /\ SchedIdle /\ VectorInit /\ ChiralIdle

SpecQueen == InitQueen /\ [][QueenNext]_vars

VectorNext ==
    \/ VecDot
    \/ VecCosineSimilarity
    \/ VecBridge
    \/ VecIntegrate
    \/ VecQuery
    \/ VecReset

InitVectors == VectorInit /\ SafetyInit /\ SchedIdle /\ QueenIdle /\ ChiralIdle

SpecVectors == InitVectors /\ [][VectorNext]_vars

ChiralNext == ChiralGetRegime \/ ChiralQueenScore

InitChiral == ChiralInit /\ SafetyInit /\ SchedIdle /\ QueenIdle /\ VectorInit

SpecChiral == InitChiral /\ [][ChiralNext]_vars

\* the scheduler loaded with three tasks: cycles and completions
LoadedNext == Schedule \/ SchedComplete

InitLoaded == LoadedInit /\ SafetyInit /\ QueenIdle /\ VectorInit /\ ChiralIdle

SpecLoaded == InitLoaded /\ [][LoadedNext]_vars

FairNext == ScheduleForever \/ CompleteSomeRunning

\* the client calls schedule() again and again, which is WF_vars(ScheduleForever)
\* with its ENABLED written as the state predicate ScheduleChanges, and
\* completes every task that keeps coming back to running
LoadedFairness ==
    /\ []<>(~ScheduleChanges) \/ []<><<ScheduleForever>>_vars
    /\ \A id \in LoadedIds : SF_vars(CompleteRunning(id))

SpecFair == InitLoaded /\ [][FairNext]_vars /\ LoadedFairness

ChiralTuneNext == ChiralOptimize \/ ChiralGetRegime

InitChiralTune == ChiralTuneInit /\ SafetyInit /\ SchedIdle /\ QueenIdle /\ VectorInit

SpecChiralTune == InitChiralTune /\ [][ChiralTuneNext]_vars

ChiralFieldNext == ChiralApplyDynamics \/ ChiralGetRegime

InitChiralField == ChiralFieldInit /\ SafetyInit /\ SchedIdle /\ QueenIdle /\ VectorInit

SpecChiralField == InitChiralField /\ [][ChiralFieldNext]_vars

\* The scheduler and the synchronizer of one system, called by one client: the two
\* components share no state, the client's calls to both are counted together.
\* The synchronizer's timer is never started here (SpecQueen covers its steps).
SystemBudget == schedCalls + queenCalls < MaxSystemCalls

SystemNext ==
    \/ SystemBudget /\ SchedSubmit
    \/ SystemBudget /\ Schedule
    \/ SystemBudget /\ SchedComplete
    \/ SystemBudget /\ SchedBlock
    \/ SystemBudget /\ SchedUnblock
    \/ SystemBudget /\ SchedRemove
    \/ SchedReset
    \/ SystemBudget /\ QueenRegister
    \/ SystemBudget /\ QueenUnregister
    \/ SystemBudget /\ QueenInject
    \/ QueenReset

InitSystem == SchedInit /\ QueenIdle /\ SafetyInit /\ VectorInit /\ ChiralIdle

SpecSystem == InitSystem /\ [][SystemNext]_vars

----------------------------------------------------------------------------
(* Claims: SafetyEnvelope *)

Checked == result # NoResult

\* C4: whenever the energy given to check() is greater than energyMax, the
\* returned status is critical, whatever the other metrics and the history.
C4_EnergyAboveMaxIsCritical ==
    (Checked /\ result.metrics.energy > thresholds.energyMax)
        => result.status = "critical"

\* C4 witness: a check() with energy above energyMax whose divergence rule
\* fired after the energy rule, with fewer than three violations in all.
C4_Witness ==
    /\ Checked
    /\ result.metrics.energy > thresholds.energyMax
    /\ result.violations = <<"energy", "divergence">>
    /\ result.status = "critical"

\* C5: three or more violations recorded in one check() (chiral ones counted)
\* give action emergency-halt and status critical; with fewer than three the
\* action is never emergency-halt.
C5_ThreeViolationsHalt ==
    Checked =>
        /\ Len(result.violations) >= 3
              => (result.action = "emergency-halt" /\ result.status = "critical")
        /\ Len(result.violations) < 3 => result.action # "emergency-halt"

\* C5 witness: exactly three violations, all of them chiral, end in
\* emergency-halt.
C5_Witness ==
    /\ Checked
    /\ result.violations = <<"chiral-transitional", "asymmetry-high", "winding">>
    /\ result.action = "emergency-halt"
    /\ result.status = "critical"

\* C10: the energy history is a FIFO window of capacity 100: after k check()
\* calls since construction or reset() it holds the energies of the most
\* recent min(k, 100) calls, in call order.
C10_HistoryIsFifoWindow ==
    /\ Len(energyLog) = calls
    /\ Len(history) = Min(calls, 100)
    /\ history = SliceLast(energyLog, Min(calls, 100))

\* C10 witness: more than 100 calls were made and the oldest sample has been
\* evicted (the window no longer starts with the first energy).
C10_Witness ==
    /\ calls > maxHistoryLength
    /\ Len(history) = maxHistoryLength
    /\ history[1] # energyLog[1]

\* C13: a check() whose only violation is the transitional chiral regime (norm,
\* coherence, energy and divergence rate in band, asymmetry, winding number and
\* spin polarization in range) returns status warning and action nominal.
C13_TransitionalOnlyWarns ==
    (Checked /\ result.violations = <<"chiral-transitional">>)
        => (result.status = "warning" /\ result.action = "nominal")

----------------------------------------------------------------------------
(* Claims: ResonantScheduler *)

StateOf(procs, id) == procs[id].state

RunningCount(procs) == Cardinality({id \in DOMAIN procs : StateOf(procs, id) = "running"})

\* twice the instantaneous coherence (cos(phase - psi) + 1) / 2 of a task against
\* the mean field of the registry it is in, in milli units
TwiceCoherence(procs, order, id) ==
    CosAt(procs[id].phase - SchedOrderParameter(procs, order).psi) + 1000

BelowRequirement(procs, order, id) ==
    TwiceCoherence(procs, order, id) < 2 * procs[id].coherenceRequired

\* a step is a schedule() call exactly when it advances the cycle counter
ScheduleStep == schedTick' = schedTick + 1

\* C1: when schedule() returns, the number of tasks in state running is at most
\* maxRunning, whatever submit, schedule, complete, block, unblock and remove
\* calls came before.
C1_RunningWithinCap ==
    [][ScheduleStep => RunningCount(processes') <= schedConfig.maxRunning]_vars

\* C2: schedule() moves a task to running only in a cycle in which its coherence
\* (cos(phase - psi) + 1) / 2, taken after the cycle's phase update, is at least
\* its coherenceRequired; a waiting task whose coherence is below its requirement
\* in a cycle is ready or coherence_wait when that cycle returns.
C2_RunningOnlyWhenCoherent ==
    [][ScheduleStep =>
        \A id \in DOMAIN processes :
            /\ (StateOf(processes, id) # "running" /\ StateOf(processes', id) = "running")
                  => ~BelowRequirement(processes', procOrder', id)
            /\ (StateOf(processes, id) \in {"pending", "ready", "coherence_wait"}
                    /\ BelowRequirement(processes', procOrder', id))
                  => StateOf(processes', id) \in {"ready", "coherence_wait"}]_vars

\* two cycles have run; one task was started while another, whose coherence is
\* below its requirement, is held in coherence_wait
C2_Witness ==
    /\ schedTick >= 2
    /\ \E a, b \in DOMAIN processes :
          /\ StateOf(processes, a) = "coherence_wait"
          /\ BelowRequirement(processes, procOrder, a)
          /\ StateOf(processes, b) = "running"
          /\ processes[b].startedAt = now

\* C3: completed is terminal: no schedule(), block(id), unblock(id) or
\* complete(id) call changes the state of a completed task.
C3_CompletedIsTerminal ==
    [][\A id \in DOMAIN processes :
            (/\ StateOf(processes, id) = "completed"
             /\ Schedule \/ SchedBlock \/ SchedUnblock \/ SchedComplete)
                => StateOf(processes', id) = "completed"]_vars

----------------------------------------------------------------------------
(* Claims: QueenSynchronizer *)

\* getQueenState(): QueenState
getQueenState == queenState

\* C6: whenever the registry is not empty and no step is running, the order
\* parameter r and the mean phase psi that getQueenState() returns equal the
\* values recomputed over the agents now in the registry with their current phases.
C6_AggregatesNeverStale ==
    (inStep = 0 /\ subsystems # <<>>) =>
        /\ getQueenState.orderParameter = QueenOrderParameter(subsystems).r
        /\ getQueenState.meanPhase = QueenOrderParameter(subsystems).psi

\* C7: at most one periodic timer is armed at a time, it is the one whose handle
\* the synchronizer holds, and at most one synchronization step is running.
C7_TickSerialization ==
    /\ timersArmed <= 1
    /\ (timersArmed = 1) <=> (syncTimer # "null")
    /\ inStep <= 1

\* a start() found the timer armed, a step has run and returned, and the next
\* step is running on the one armed timer
C7_Witness ==
    /\ startsIgnored >= 1
    /\ queenTick >= 1
    /\ inStep = 1
    /\ timersArmed = 1

\* C8: stop() leaves the registry, the queen state, the tick counter and the
\* metrics history unchanged and no timer held; on a synchronizer that holds no
\* timer (as after a first stop()) it changes nothing at all.
C8_StopKeepsState ==
    [][stop =>
        /\ UNCHANGED <<subsystems, queenState, queenTick, queenHistory, queenConfig>>
        /\ syncTimer' = "null"
        /\ (syncTimer = "null" => UNCHANGED <<syncTimer, timersArmed>>)]_vars

\* the loop was stopped after at least one step: agents, tick and history are kept
C8_Witness ==
    /\ syncTimer = "null"
    /\ timersArmed = 0
    /\ inStep = 0
    /\ queenTick >= 1
    /\ Len(queenHistory) = queenTick
    /\ subsystems # <<>>

\* C9: between any two publications of consciousness-achieved at least 100
\* synchronization steps have executed.
C9_PublicationsRateLimited ==
    \A i, j \in DOMAIN publications :
        i < j => publications[j] - publications[i] >= PublicationPeriod

----------------------------------------------------------------------------
(* Claims: ids that are not in a registry *)

\* C11: complete, block, unblock and remove of the scheduler and
\* unregisterSubsystem and injectSignal of the synchronizer, called with an id
\* that is not in the registry, leave the registry and every record in it as they
\* were, and getProcess / getSubsystemState return undefined for that id.
C11_UnknownIdIsNoOp ==
    /\ \A id \in TaskIds \ DOMAIN processes :
        /\ complete(processes, id, now) = processes
        /\ block(processes, id) = processes
        /\ unblock(processes, id) = processes
        /\ MapDelete(processes, id) = processes
        /\ OrderDelete(procOrder, id) = procOrder
        /\ getProcess(processes, id) = Undefined
    /\ \A id \in AgentIds \ DOMAIN subsystems :
        /\ MapDelete(subsystems, id) = subsystems
        /\ \A sig \in InjectSet :
              SignalInjected(subsystems, id, sig.phaseOffset, sig.energyBoost) = subsystems
        /\ getSubsystemState(subsystems, id) = Undefined

\* the only scheduler call made named an id the empty registry does not hold, and
\* the synchronizer holds one of the two agents after two calls
C11_Witness ==
    /\ schedCalls = 1
    /\ schedTick = 0
    /\ processes = <<>>
    /\ queenCalls = 2
    /\ DOMAIN subsystems = {"a1"}

\* C16: a task id leaves the registry only in a remove(id) or a reset();
\* schedule(), complete(), block() and unblock() keep every record, so a completed
\* task is still returned by getProcess and counted in processCount after them.
C16_RecordsKeptUntilRemoved ==
    [][/\ \A id \in DOMAIN processes :
            id \notin DOMAIN processes' => (Remove(id) \/ SchedReset)
       /\ (\/ ScheduleStep
           \/ \E id \in TaskIds : \/ processes' = complete(processes, id, now)
                                  \/ processes' = block(processes, id)
                                  \/ processes' = unblock(processes, id))
          => /\ DOMAIN processes' = DOMAIN processes
             /\ getState(processes', procOrder').processCount
                   = getState(processes, procOrder).processCount
             /\ \A id \in DOMAIN processes :
                   StateOf(processes, id) = "completed"
                       => getProcess(processes', id) = processes'[id]]_vars

\* a task completed before the last scheduling cycle is still in the registry,
\* next to a second task
C16_Witness ==
    /\ getState(processes, procOrder).processCount = 2
    /\ \E id \in DOMAIN processes :
          /\ StateOf(processes, id) = "completed"
          /\ processes[id].completedAt < lastScheduleTime

----------------------------------------------------------------------------
(* Claims: one task from submission to completion *)

\* a classical task as submit() leaves it, with priority 50 and coherenceRequired 0
SubmittedPlain(p) ==
    /\ p.processClass = "classical"
    /\ p.priority = 50 * 1000
    /\ p.coherenceRequired = 0
    /\ p.state = "pending"

\* C12: with maxRunning = 1 and a registry that holds one classical task submitted
\* with priority 50 and coherenceRequired 0, one schedule() call leaves the task
\* running; complete(id) on the running task sets its state to completed with
\* executionTime >= 0.
C12_SubmitRunComplete ==
    [][\A id \in TaskIds :
        (schedConfig.maxRunning = 1 /\ DOMAIN processes = {id}) =>
            /\ (SubmittedPlain(processes[id]) /\ ScheduleStep)
                  => StateOf(processes', id) = "running"
            /\ (StateOf(processes, id) = "running" /\ Complete(id))
                  => /\ StateOf(processes', id) = "completed"
                     /\ processes'[id].executionTime >= 0]_vars

\* the single task of a scheduler with maxRunning = 1 was started by a cycle and
\* completed 785 ms later
C12_Witness ==
    /\ schedConfig.maxRunning = 1
    /\ schedTick >= 1
    /\ \E id \in TaskIds :
          /\ DOMAIN processes = {id}
          /\ processes[id].processClass = "classical"
          /\ processes[id].priority = 50 * 1000
          /\ processes[id].coherenceRequired = 0
          /\ processes[id].state = "completed"
          /\ processes[id].executionTime > 0

----------------------------------------------------------------------------
(* Claims: QueenSynchronizer phases and order parameter *)

\* C14: in every reachable state of the synchronizer the phase of every
\* registered agent lies in [0, 2*pi), after any registerSubsystem,
\* synchronization step and injectSignal call, negative offsets included.
C14_PhasesWithinTurn ==
    \A id \in DOMAIN subsystems :
        subsystems[id].phase >= 0 /\ subsystems[id].phase < PhaseSteps


\* all registered agents have one natural frequency and one phase
Synchronized(subs) ==
    \A i, j \in DOMAIN subs :
        subs[i].frequency = subs[j].frequency /\ subs[i].phase = subs[j].phase

\* the registry after the phase loop of a step whose noise terms are all zero
\* (Math.random() returning 0.5)
ZeroNoiseStep(subs, qs, cfg, t) ==
    [id \in DOMAIN subs |-> StepSubsystem(subs[id], qs, cfg, 0, t)]

----------------------------------------------------------------------------
(* Claims: vectors of unequal dimension *)

\* C17: every operation that combines two vectors (SignalProcessor.dot and
\* cosineSimilarity, EmergenceAccumulator.integrate and query,
\* calculateBridgeOperator) ends with an error when their dimensions differ, and
\* never computes over the shorter length.
C17_UnequalDimensionsFail ==
    (vecOut.op # "none" /\ vecOut.dims[1] # vecOut.dims[2]) => vecOut.raised


\* C18: with no registered agent (also after every agent was unregistered
\* following earlier steps) the order parameter and the coherence that
\* getQueenState and getSynchronizationMetrics return are 0, and with no
\* non-completed task those that the scheduler's getState returns are 0.
C18_EmptyRegistryDefaults ==
    /\ (inStep = 0 /\ subsystems = <<>>) =>
          /\ getQueenState.orderParameter = 0
          /\ getQueenState.coherenceLevel = 0
    /\ getProcessesByState(processes, procOrder, "completed") = procOrder =>
          /\ getState(processes, procOrder).orderParameter = 0
          /\ getState(processes, procOrder).systemCoherence = 0

----------------------------------------------------------------------------
(* Claims: chiral stability regimes *)

----------------------------------------------------------------------------
(* Claims: the order parameter of both registries *)

\* two phases are one angle
SameAngle(a, b) == (a - b) % PhaseSteps = 0

\* two phases are half a turn apart
OppositeAngle(a, b) == (a - b) % PhaseSteps = PhaseSteps \div 2

\* the claim's conditions on the order parameter mf of a non-empty set ids of
\* members whose phases are phase[id]
OrderParameterSound(mf, phase, ids) ==
    /\ 0 <= mf.r /\ mf.r <= 1000
    /\ 0 - PhaseSteps \div 2 < mf.psi /\ mf.psi <= PhaseSteps \div 2
    /\ mf.r = 1000 <=> \A i, j \in ids : SameAngle(phase[i], phase[j])
    /\ (Cardinality(ids) = 2 /\ \E i, j \in ids : OppositeAngle(phase[i], phase[j]))
          => mf.r = 0

\* the ids of the non-completed tasks
ActiveTasks == {id \in DOMAIN processes : processes[id].state # "completed"}

\* C20: for a non-empty registry the recomputed order parameter has r in [0, 1]
\* and psi in (-pi, pi], r = 1 exactly when all phases are one angle, and r = 0
\* for two members at opposite phases; for the synchronizer over its agents and
\* for the scheduler over its non-completed tasks.
C20_OrderParameterSound ==
    /\ subsystems # <<>> =>
          OrderParameterSound(QueenOrderParameter(subsystems),
                              [id \in DOMAIN subsystems |-> subsystems[id].phase],
                              DOMAIN subsystems)
    /\ ActiveTasks # {} =>
          OrderParameterSound(SchedOrderParameter(processes, procOrder),
                              [id \in DOMAIN processes |-> processes[id].phase],
                              ActiveTasks)

\* two agents at phases 0 and pi give r = 0 in the synchronizer, and the
\* scheduler's registry holds one task, of r = 1
C20_Witness ==
    /\ DOMAIN subsystems = {"a1", "a2"}
    /\ {subsystems[id].phase : id \in DOMAIN subsystems} = {0, PhaseSteps \div 2}
    /\ QueenOrderParameter(subsystems).r = 0
    /\ Cardinality(ActiveTasks) = 1
    /\ SchedOrderParameter(processes, procOrder).r = 1000

----------------------------------------------------------------------------
(* Claims: the field dynamics of the ChiralEngine *)

\* the constants added to every element of a field, in milli-rad
ShiftSet == {-7000, -1571, 1, 1000, 3142, 6283}

Shifted(state, c) == [i \in DOMAIN state |-> state[i] + c]

RECURSIVE Energy(_, _)
Energy(state, i) ==
    IF i > Len(state) THEN 0 ELSE state[i] * state[i] + Energy(state, i + 1)

\* C23: with gamma > 0, an applyChiralDynamics step on the arrays the previous
\* call returned (or on the first arrays) never increases the total field
\* energy: the sum of state[i]^2 after the step is at most the sum before it.
C23_EnergyNeverIncreases ==
    [][(chiralEngine.gamma > 0 /\ chiralField'.steps = chiralField.steps + 1)
          => Energy(chiralField'.state, 1) <= Energy(chiralField.state, 1)]_vars

----------------------------------------------------------------------------
(* Claims: the local coherence of the agents *)

\* C22: after every synchronization step the local coherence of every agent is
\* in [0, 1], whatever the agent's handedness and the offset of its phase from
\* the mean phase.
C22_LocalCoherenceNormalized ==
    steps > 0 =>
        \A id \in DOMAIN subsystems :
            0 <= subsystems[id].coherence /\ subsystems[id].coherence <= 1000

----------------------------------------------------------------------------
(* Claims: the state changes of one scheduling cycle *)

\* the state changes a schedule() call may make
CycleTransitions ==
    {<<"pending", "ready">>, <<"pending", "running">>, <<"pending", "coherence_wait">>,
     <<"ready", "running">>, <<"ready", "coherence_wait">>,
     <<"coherence_wait", "running">>, <<"running", "ready">>}

\* C24: every change of a task's state made by one schedule() call is one of
\* pending->ready, pending->running, pending->coherence_wait, ready->running,
\* ready->coherence_wait, coherence_wait->running, running->ready; no call puts a
\* task into pending, blocked, resonating or completed, and no task is pending
\* when the call returns.
C24_CycleTransitions ==
    [][ScheduleStep =>
        \A id \in DOMAIN processes :
            /\ StateOf(processes', id) # StateOf(processes, id)
                  => /\ <<StateOf(processes, id), StateOf(processes', id)>> \in CycleTransitions
                     /\ StateOf(processes', id)
                            \notin {"pending", "blocked", "resonating", "completed"}
            /\ StateOf(processes', id) # "pending"]_vars

\* three cycles have run: the second promoted a submitted task to ready
\* (pending->ready) and the third demoted the task started by the first
\* (running->ready)
C24_Witness ==
    /\ schedTick = 3
    /\ schedCalls = 5
    /\ \E a, b \in DOMAIN processes :
          /\ StateOf(processes, a) = "ready"
          /\ processes[a].startedAt # Undefined
          /\ StateOf(processes, b) = "ready"
          /\ processes[b].startedAt = Undefined


\* C25: a task that is in coherence_wait when schedule() is called and whose
\* coherence (cos(phase - psi) + 1) / 2 after the cycle's phase update is at least
\* its coherenceRequired is running when the call returns, with startedAt set to
\* the time of the call, whatever the number of tasks already running.
C25_CoherentWaiterStarts ==
    [][ScheduleStep =>
        \A id \in DOMAIN processes :
            (/\ StateOf(processes, id) = "coherence_wait"
             /\ ~BelowRequirement(processes', procOrder', id))
                => /\ StateOf(processes', id) = "running"
                   /\ processes'[id].startedAt = now']_vars

\* with maxRunning = 1 a task that requires coherence 0.9 was started by the last
\* cycle out of coherence_wait while the other task was running
C25_Witness ==
    /\ schedConfig.maxRunning = 1
    /\ lastScheduleTime = now
    /\ \E a, b \in DOMAIN processes :
          /\ a # b
          /\ StateOf(processes, a) = "running"
          /\ processes[a].coherenceRequired = 900
          /\ processes[a].startedAt = now
          /\ processes[a].waitTime > 0
          /\ StateOf(processes, b) = "running"
          /\ processes[b].startedAt < now


\* the tasks that are ready or pending
Candidates(procs) == {id \in DOMAIN procs : StateOf(procs, id) \in {"ready", "pending"}}

\* C26: in a schedule() call, with s = maxRunning minus the number of tasks
\* running at the start of the call, exactly min(max(s, 0), number of ready or
\* pending tasks) ready or pending tasks receive a slot (they end running, or in
\* coherence_wait when their coherence is below their requirement), each of them
\* has a resonant priority at least that of every ready or pending task left
\* without one, and the slot of a task sent to coherence_wait goes to no other.
C26_SlotFilling ==
    [][ScheduleStep =>
        LET slots   == schedConfig.maxRunning - RunningCount(processes)
            slotted == {id \in Candidates(processes) :
                            StateOf(processes', id) \in {"running", "coherence_wait"}}
        IN  /\ Cardinality(slotted)
                  = Min(Max(slots, 0), Cardinality(Candidates(processes)))
            /\ \A a \in slotted, b \in Candidates(processes) \ slotted :
                  /\ processes'[a].resonantPriority >= processes'[b].resonantPriority
                  /\ StateOf(processes', b) = "ready"
            /\ \A a \in slotted :
                  StateOf(processes', a) = "coherence_wait"
                      <=> BelowRequirement(processes', procOrder', a)]_vars

\* with maxRunning = 1 the first cycle gave its one slot to the task of higher
\* priority, whose coherence was below its requirement: that task waits for
\* coherence, the other is ready and nothing runs
C26_Witness ==
    /\ schedConfig.maxRunning = 1
    /\ schedTick = 1
    /\ schedCalls = 3
    /\ RunningCount(processes) = 0
    /\ \E a, b \in DOMAIN processes :
          /\ StateOf(processes, a) = "coherence_wait"
          /\ StateOf(processes, b) = "ready"
          /\ processes[a].resonantPriority > processes[b].resonantPriority


\* the least (lowest = TRUE) or greatest resonant priority among the tasks ids
ExtremePriority(procs, ids, lowest) ==
    CHOOSE v \in {procs[id].resonantPriority : id \in ids} :
        \A id \in ids : IF lowest THEN v <= procs[id].resonantPriority
                        ELSE v >= procs[id].resonantPriority

\* the tasks of procs in state st
InState(procs, st) == {id \in DOMAIN procs : StateOf(procs, id) = st}

\* C27: with maxRunning >= 1, a schedule() call demotes a running task to ready
\* exactly when, at the start of the call, some task is ready, the number of
\* running tasks is at least maxRunning and the highest resonant priority among
\* the ready tasks exceeds the lowest among the running tasks by more than 20
\* (priorities as this call computes them); then exactly one task is demoted, it
\* has the least resonant priority of the running tasks, and no ready task is
\* started in that call.
C27_Preemption ==
    [][(ScheduleStep /\ schedConfig.maxRunning >= 1) =>
        LET ready   == InState(processes, "ready")
            running == InState(processes, "running")
            demoted == {id \in running : StateOf(processes', id) = "ready"}
            due     == /\ ready # {}
                       /\ Cardinality(running) >= schedConfig.maxRunning
                       /\ ExtremePriority(processes', ready, FALSE)
                              - ExtremePriority(processes', running, TRUE) > 20 * 1000
        IN  /\ demoted # {} <=> due
            /\ due => /\ Cardinality(demoted) = 1
                      /\ \A d \in demoted :
                            processes'[d].resonantPriority
                                = ExtremePriority(processes', running, TRUE)
                      /\ \A a \in ready : StateOf(processes', a) # "running"]_vars

\* two tasks of different resonant priority were running under maxRunning = 2
\* when the third, submitted later, had become ready: the last cycle demoted the
\* one of lower priority, the other still runs and the third is still ready
C27_Witness ==
    /\ schedConfig.maxRunning = 2
    /\ schedTick = 3
    /\ StateOf(processes, "t3") = "ready"
    /\ processes["t3"].startedAt = Undefined
    /\ \E a, b \in {"t1", "t2"} :
          /\ StateOf(processes, a) = "ready"
          /\ processes[a].startedAt # Undefined
          /\ StateOf(processes, b) = "running"
          /\ processes[a].resonantPriority < processes[b].resonantPriority
          /\ processes["t3"].resonantPriority - processes[a].resonantPriority > 20 * 1000


----------------------------------------------------------------------------
(* Claims: blocked tasks *)

\* the record of id is new: a submit(id) replaced it
Resubmitted(id) ==
    /\ id \in DOMAIN processes'
    /\ StateOf(processes', id) = "pending"
    /\ processes'[id].waitTime = 0
    /\ processes'[id].resonantPriority = 0

----------------------------------------------------------------------------
(* Claims: the range of the resonant priority *)

\* C30: after every schedule() call the resonantPriority of every task that is
\* not completed lies in [0, 100], whatever its base priority, wait time and
\* deadline are, and a completed task keeps the value it had before the call.
C30_ResonantPriorityInRange ==
    [][ScheduleStep =>
        \A id \in DOMAIN processes' :
            IF StateOf(processes', id) = "completed"
            THEN processes'[id].resonantPriority = processes[id].resonantPriority
            ELSE /\ processes'[id].resonantPriority >= 0
                 /\ processes'[id].resonantPriority <= 100000]_vars

\* after a cycle, a task of base priority 150 whose deadline passed an hour ago
\* stands at 100 next to a completed task that keeps an earlier value
C30_Witness ==
    /\ schedTick >= 2
    /\ lastScheduleTime = now
    /\ \E id \in DOMAIN processes :
          /\ processes[id].priority > 100000
          /\ processes[id].coherenceDeadline < now - 1000000
          /\ StateOf(processes, id) # "completed"
          /\ processes[id].resonantPriority = 100000
    /\ \E id \in DOMAIN processes :
          /\ StateOf(processes, id) = "completed"
          /\ processes[id].resonantPriority > 0
          /\ processes[id].resonantPriority < 100000


----------------------------------------------------------------------------
(* Claims: progress of the ready tasks *)

\* the task's coherence requirement is met in the cycle a schedule() call made
\* now would run, whatever the clock reads
CoherenceMet(id) ==
    \A dt \in ElapsedSet :
        now + dt \in ClockValues =>
            LET moved == updateDynamics(processes, procOrder, schedConfig,
                                        now + dt - lastScheduleTime)
            IN  MeetsCoherence(moved[id], SchedOrderParameter(moved, procOrder).psi)

\* C29: with maxRunning >= 1, a fixed set of tasks, schedule() called again and
\* again and every running task completed by the client sooner or later, a ready
\* task whose coherence requirement is met in every cycle while it is ready
\* becomes running.
C29_NoStarvation ==
    \A id \in LoadedIds :
        []((/\ StateOf(processes, id) = "ready"
            /\ [](StateOf(processes, id) = "ready" => CoherenceMet(id)))
              => <>(StateOf(processes, id) = "running"))

\* under maxRunning = 1 a task that asks for no coherence runs after it waited
\* for the task that ran before it and was completed
C29_Witness ==
    /\ schedConfig.maxRunning = 1
    /\ \E a, b \in LoadedIds :
          /\ a # b
          /\ StateOf(processes, a) = "completed"
          /\ processes[a].startedAt # Undefined
          /\ StateOf(processes, b) = "running"
          /\ processes[b].waitTime > 0
          /\ processes[b].startedAt >= processes[a].completedAt

----------------------------------------------------------------------------
(* Claims: the decision of check() *)

\* the rules of check() that left their tag in the violations of the result
Fired(tags) == \E i \in 1..Len(result.violations) : result.violations[i] \in tags

\* the input of the most recent check(), as its result reports it
LastInput ==
    [coherence |-> result.metrics.coherence, emergenceNorm |-> result.metrics.emergenceNorm,
     energy |-> result.metrics.energy, chiral |-> result.metrics.chiral]

\* the action the norm, coherence, energy and divergence rules of the most recent
\* check() chose between them; the history holds that call's sample until reset()
NonChiralAction ==
    DivergenceRule(
        EnergyRule(
            CoherenceRule(
                NormRule(StartAcc, LastInput, thresholds), LastInput, thresholds),
            LastInput, thresholds),
        calculateDivergenceRate(history), thresholds).action

\* C31: check() returns inject-noise only if no norm, energy or divergence rule
\* fired in the call, returns chiral-rebalance, flip-handedness or topological-reset
\* only if no norm, coherence, energy or divergence rule fired, and an action
\* chosen by those four rules is never replaced by that of a chiral rule (only by
\* emergency-halt).
C31_ActionPrecedence ==
    result # NoResult =>
        /\ result.action = "inject-noise"
              => ~Fired({"norm-high", "norm-low", "energy", "divergence"})
        /\ result.action \in {"chiral-rebalance", "flip-handedness", "topological-reset"}
              => ~Fired({"norm-high", "norm-low", "coherence-high", "coherence-low",
                         "energy", "divergence"})
        /\ (history # <<>> /\ NonChiralAction # "nominal")
              => result.action \in {NonChiralAction, "emergency-halt"}

\* a check() in which the coherence rule chose inject-noise and the regime rule
\* of an unstable chiral state fired without replacing it
C31_Witness ==
    /\ result # NoResult
    /\ result.action = "inject-noise"
    /\ Fired({"chiral-unstable"})
    /\ history # <<>>

C32_MeanOfDifferences ==
    (result # NoResult /\ history # <<>>) =>
        LET recent == SliceLast(history, DivergenceWindow)
            rate   == result.metrics.divergenceRate
        IN  IF Len(history) < 2 THEN rate.num = 0
            ELSE rate.num * (Len(recent) - 1) = SumAbsDiff(recent, 2) * rate.den


----------------------------------------------------------------------------
(* Claims: what a call of the envelope changes *)

\* C33: check() changes nothing but the history, to which it appends the energy
\* of its input (dropping the oldest sample beyond maxHistoryLength): the
\* thresholds and everything outside the envelope stay as they are, and the result
\* is a function of the thresholds, the history and the input.
C33_CheckIsAdvisory ==
    [][lastCall'.method = "check" =>
          /\ thresholds' = thresholds
          /\ history' = PushEnergy(history, result'.metrics.energy)
          /\ Len(history) < maxHistoryLength
                => history' = Append(history, result'.metrics.energy)
          /\ result' = CheckResult(history', LastInput', thresholds)
          /\ UNCHANGED safetyFrame]_vars

\* a check() made on a full history: the sample is stored and the oldest dropped
C33_Witness ==
    /\ lastCall.method = "check"
    /\ calls = maxHistoryLength + 1
    /\ Len(history) = maxHistoryLength
    /\ result # NoResult
    /\ thresholds = DefaultThresholds

\* C38: getSummary(state) and recommendDampingAdjustment(state) each append one
\* energy sample to the history as check(state) does, and the divergence rate of
\* every call is taken over the history that holds the samples of all three
\* methods.
C38_AdviceRecordsSample ==
    [][/\ lastCall'.method \in {"getSummary", "recommendDampingAdjustment"} =>
            /\ calls' = calls + 1
            /\ history' = PushEnergy(history, result'.metrics.energy)
            /\ Len(history') = Min(Len(history) + 1, maxHistoryLength)
            /\ result' = CheckResult(history', LastInput', thresholds)
       /\ calls' = calls + 1 =>
            result'.metrics.divergenceRate = calculateDivergenceRate(history')]_vars

\* a getSummary() that reports the divergence between its own sample and the
\* sample of the call before it
C38_Witness ==
    /\ lastCall.method = "getSummary"
    /\ calls = 2
    /\ Len(history) = 2
    /\ lastCall.value.status = "warning"
    /\ lastCall.value.violation = "divergence"

----------------------------------------------------------------------------
(* Claims: optimizeForStability *)

\* C35: after optimizeForStability() with the default target velocity the
\* engine's getStabilityRegime() is stable, for every gamma in
\* [DAMPING_MIN, DAMPING_MAX] and every eta the engine had before.
C35_OptimizedIsStable ==
    [][(/\ chiralEngine' = optimizeForStability(chiralEngine, TargetVelocityDefault)
        /\ chiralEngine.gamma >= DAMPING_MIN
        /\ chiralEngine.gamma <= DAMPING_MAX)
            => getStabilityRegime(chiralEngine') = "stable"]_vars


----------------------------------------------------------------------------
(* Claims: the timer of the QueenSynchronizer *)

\* no timer handle is held and no synchronization step is on the stack
Stopped == syncTimer = "null" /\ inStep = 0

\* C34: once stop() has returned and until start() is called, no timer is armed
\* and no synchronization step begins or ends: the tick counter and the metrics
\* history change only by a reset(), a step that is not a call of the client
\* leaves the tick, the agents, the queen state and the history as they are;
\* and a reset() also leaves no handle and no timer armed.
C34_StoppedStaysStill ==
    [][/\ Stopped => /\ timersArmed = 0
                     /\ inStep' = 0
                     /\ steps' = steps
                     /\ publications' = publications
                     /\ queenTick' \in {queenTick, 0}
                     /\ queenHistory' \in {queenHistory, <<>>}
                     /\ (queenCalls' = queenCalls /\ queenCalls # 0)
                            => UNCHANGED <<queenTick, subsystems, queenState, queenHistory>>
       /\ (queenCalls' = 0 /\ queenCalls # 0)
              => (syncTimer' = "null" /\ timersArmed' = 0)]_vars

\* stop() was called after the loop had run a step with agents registered
C34_Witness ==
    /\ Stopped
    /\ timersArmed = 0
    /\ steps > 0
    /\ queenTick > 0
    /\ queenHistory # <<>>
    /\ subsystems # <<>>


----------------------------------------------------------------------------
(* Claims: submitting an id again *)

\* C37: submit(id, ...) with an id that is in the registry replaces the record:
\* the registry keeps its size and its order, and the task is pending with
\* waitTime 0, executionTime 0 and no startedAt, whatever the state of the record
\* replaced.
C37_ResubmitReplaces ==
    [][\A id \in DOMAIN processes :
          (/\ id \in DOMAIN processes'
           /\ processes'[id] # processes[id]
           /\ StateOf(processes', id) = "pending")
              => /\ DOMAIN processes' = DOMAIN processes
                 /\ procOrder' = procOrder
                 /\ processes'[id].waitTime = 0
                 /\ processes'[id].executionTime = 0
                 /\ processes'[id].startedAt = Undefined
                 /\ processes'[id].resonantPriority = 0
                 /\ \A other \in DOMAIN processes \ {id} :
                       processes'[other] = processes[other]]_vars

\* t1 was submitted before t2, both went through a cycle that started t2, and t1
\* was submitted again: it is pending at its old place in the Map
C37_Witness ==
    /\ procOrder = <<"t1", "t2">>
    /\ schedTick = 1
    /\ schedCalls = 4
    /\ StateOf(processes, "t2") = "running"
    /\ StateOf(processes, "t1") = "pending"
    /\ processes["t1"].startedAt = Undefined


----------------------------------------------------------------------------
(* Claims: config.coherenceThreshold *)

\* values of config.coherenceThreshold a second scheduler is constructed with
ThresholdSet == {1000}

OtherConfig(th) == [schedConfig EXCEPT !.coherenceThreshold = th]

\* schedule(): the registry a scheduler configured with cfg takes its decisions
\* on when it is called in this state and the clock reads t
RankedWith(cfg, t) ==
    calculateResonantPriorities(
        updateDynamics(processes, procOrder, cfg, t - lastScheduleTime), procOrder, t)

\* C39: a scheduler that differs from this one only in config.coherenceThreshold
\* and is in the same state takes the same decisions in a schedule() call made
\* at the same reading of the clock and ends in the same task states, and builds
\* the same record in submit(): by induction the two agree along every run.
C39_ThresholdIgnored ==
    [][/\ ScheduleStep =>
            \A th \in ThresholdSet :
                \A ranked \in {RankedWith(OtherConfig(th), now')} :
                    \A decisions \in {makeDecisions(ranked, procOrder, OtherConfig(th))} :
                        /\ ranked = RankedWith(schedConfig, now')
                        /\ decisions = makeDecisions(ranked, procOrder, schedConfig)
                        /\ processes' = ExecuteDecisions(PromotePending(ranked),
                                                         decisions, now')
       /\ \A th \in ThresholdSet, o \in SubmitSet :
             NewProcess(OtherConfig(th), "t1", o.processClass, o.priority,
                        o.coherenceRequired, o.phase, now)
                = NewProcess(schedConfig, "t1", o.processClass, o.priority,
                             o.coherenceRequired, o.phase, now)]_vars

\* schedule() has just started a task that asks for no coherence of its own
\* while its coherence was below the coherenceThreshold of the second scheduler
C39_Witness ==
    /\ schedTick >= 1
    /\ \E id \in DOMAIN processes :
          /\ StateOf(processes, id) = "running"
          /\ processes[id].startedAt = now
          /\ processes[id].coherenceRequired = 0
          /\ \E th \in ThresholdSet :
                TwiceCoherence(processes, procOrder, id) < 2 * th

====
